---- MODULE Spec2Model ----
(***************************************************************************)
(* CloudTask CLI: the query DSL parser (parse_query) and the SQLite        *)
(* translator (SQLiteBackend.search_tasks), src/cloudtask.py.              *)
(*                                                                         *)
(* Text is a sequence of one-character strings, so that the regular        *)
(* expression of parse_query is modelled by what it does on characters.    *)
(* Generated SQL is a sequence of chunks: literal chunks of the f-strings  *)
(* and the characters of whatever is interpolated. Table tasks is a        *)
(* sequence of rows, and the statement is executed on it as SQLite does.   *)
(***************************************************************************)
EXTENDS Integers, Sequences, FiniteSets, TLC

VARIABLES args, base, pc, ret, search_query, sql, params, tasks, seq, now, found, order, call, issued, deleted, file, clock, cache_got, cache_put, jobs, returned, max_retries, max_workers

vars == <<args, base, pc, ret, search_query, sql, params, tasks, seq, now, found, order, call, issued, deleted, file, clock, cache_got, cache_put, jobs, returned, max_retries, max_workers>>

(***************************************************************************)
(* Characters and Python's str helpers                                     *)
(***************************************************************************)
Letters ==
    {"a","b","c","d","e","f","g","h","i","j","k","l","m","n","o","p","q","r",
     "s","t","u","v","w","x","y","z",
     "A","B","C","D","E","F","G","H","I","J","K","L","M","N","O","P","Q","R",
     "S","T","U","V","W","X","Y","Z"}

Digits == {"0","1","2","3","4","5","6","7","8","9"}

\* [a-zA-Z0-9_]
WordChars == Letters \cup Digits \cup {"_"}

\* [=><!]
OpChars == {"=", ">", "<", "!"}

SP == " "

\* The first position >= i of s whose character is not in cs (Len(s)+1 if none):
\* where a greedy  [cs]*  that starts at i stops.
RECURSIVE Span(_, _, _)
Span(s, i, cs) ==
    IF i <= Len(s) /\ s[i] \in cs THEN Span(s, i + 1, cs) ELSE i

\* The same for a negated class  [^cs]*.
RECURSIVE SpanNot(_, _, _)
SpanNot(s, i, cs) ==
    IF i <= Len(s) /\ s[i] \notin cs THEN SpanNot(s, i + 1, cs) ELSE i

\* s[i..j-1]
Slice(s, i, j) == SubSeq(s, i, j - 1)

\* The last position <= j of s whose character is not in cs (i-1 if none).
RECURSIVE SpanBack(_, _, _, _)
SpanBack(s, i, j, cs) ==
    IF j >= i /\ s[j] \in cs THEN SpanBack(s, i, j - 1, cs) ELSE j

\* str.strip(chars): the characters of cs removed from both ends.
StripChars(s, cs) ==
    LET i == Span(s, 1, cs)
        j == SpanBack(s, i, Len(s), cs)
    IN  SubSeq(s, i, j)

\* str.strip() on text whose only whitespace is the space.
Strip(s) == StripChars(s, {SP})

\* str.replace('_', ' ')
ReplaceUnderscore(s) == [k \in 1..Len(s) |-> IF s[k] = "_" THEN SP ELSE s[k]]

\* str.split(","): the pieces between commas, empty pieces included.
RECURSIVE SplitComma(_)
SplitComma(s) ==
    LET c == SpanNot(s, 1, {","})
    IN  IF c > Len(s) THEN <<s>>
        ELSE <<Slice(s, 1, c)>> \o SplitComma(SubSeq(s, c + 1, Len(s)))

\* " ".join(list)
RECURSIVE JoinSpace(_)
JoinSpace(l) ==
    IF l = <<>> THEN <<>>
    ELSE IF Len(l) = 1 THEN l[1]
    ELSE l[1] \o <<SP>> \o JoinSpace(Tail(l))

\* s has the text k at position p.
HasAt(s, p, k) ==
    /\ p + Len(k) - 1 <= Len(s)
    /\ \A n \in 1..Len(k) : s[p + n - 1] = k[n]

(***************************************************************************)
(* The clause pattern of parse_query and re.findall                        *)
(***************************************************************************)
\* The keyword alternation (?:[lg]te?|nin|neq|eq|not ?eq|not ?in|in), as the
\* texts it matches, in the order the alternatives are tried.
Keywords ==
    << <<"l","t","e">>, <<"l","t">>, <<"g","t","e">>, <<"g","t">>,
       <<"n","i","n">>, <<"n","e","q">>, <<"e","q">>,
       <<"n","o","t"," ","e","q">>, <<"n","o","t","e","q">>,
       <<"n","o","t"," ","i","n">>, <<"n","o","t","i","n">>,
       <<"i","n">> >>

\* The first keyword (in alternation order) that stands at p followed by a
\* space, as its index in Keywords; 0 if none.
RECURSIVE KeywordAt(_, _, _)
KeywordAt(s, p, n) ==
    IF n > Len(Keywords) THEN 0
    ELSE IF HasAt(s, p, Keywords[n] \o <<SP>>) THEN n
    ELSE KeywordAt(s, p, n + 1)

\* Group 2,  ( *[=><!]+| +(?:...) )? , tried at position e1: the position
\* after it (e1 when the group matches nothing).
OpEnd(s, e1) ==
    LET p == Span(s, e1, {SP})
        q == Span(s, p, OpChars)
        k == KeywordAt(s, p, 1)
    IN  IF q > p THEN q
        ELSE IF p > e1 /\ k # 0 THEN p + Len(Keywords[k]) + 1
        ELSE e1

\* Group 4,  (\[[^\]]+\]|\"[^\"]+\"|[^ ]+)? , tried at position e3.
ValueEnd(s, e3) ==
    LET rb == SpanNot(s, e3 + 1, {"]"})
        rq == SpanNot(s, e3 + 1, {"\""})
        rs == SpanNot(s, e3, {SP})
    IN  IF e3 > Len(s) THEN e3
        ELSE IF s[e3] = "[" /\ rb > e3 + 1 /\ rb <= Len(s) THEN rb + 1
        ELSE IF s[e3] = "\"" /\ rq > e3 + 1 /\ rq <= Len(s) THEN rq + 1
        ELSE rs

\* One match of the pattern at position i (s[i] is a word character): the
\* five groups and the position after the match.
MatchAt(s, i) ==
    LET e1 == Span(s, i, WordChars)
        e2 == OpEnd(s, e1)
        e3 == Span(s, e2, {SP})
        e4 == ValueEnd(s, e3)
        e5 == Span(s, e4, {SP})
    IN  [field |-> Slice(s, i, e1), op |-> Slice(s, e1, e2),
         ws |-> Slice(s, e2, e3), value |-> Slice(s, e3, e4),
         trail |-> Slice(s, e4, e5), end |-> e5]

\* re.findall(pattern, s) from position i: the non-overlapping matches, left
\* to right; a character at which the pattern cannot start is skipped.
RECURSIVE findall(_, _)
findall(s, i) ==
    IF i > Len(s) THEN <<>>
    ELSE IF s[i] \in WordChars
         THEN LET m == MatchAt(s, i) IN <<m>> \o findall(s, m.end)
         ELSE findall(s, i + 1)

\* "".join("".join(m) for m in matches)
RECURSIVE reconstructed(_)
reconstructed(matches) ==
    IF matches = <<>> THEN <<>>
    ELSE LET m == Head(matches)
         IN  m.field \o m.op \o m.ws \o m.value \o m.trail
                \o reconstructed(Tail(matches))

(***************************************************************************)
(* Python values and dicts                                                 *)
(***************************************************************************)
\* A value of a filter: str, float, bool, None or list of str, each a record
\* of its own shape, so that values of different Python types are unequal.
StrV(s) == [str |-> s]
NumV(n) == [num |-> n]
BoolV(b) == [bool |-> b]
NoneV == [none |-> TRUE]
ListV(l) == [list |-> l]

IsStr(v) == DOMAIN v = {"str"}
IsList(v) == DOMAIN v = {"list"}

\* A dict is the sequence of its items [k, v] in insertion order, keys unique.
DictKeys(d) == {d[n].k : n \in 1..Len(d)}

DictHas(d, key) == key \in DictKeys(d)

\* d[key]
DictGet(d, key) == d[CHOOSE n \in 1..Len(d) : d[n].k = key].v

\* d[key] = val: an existing key keeps its place, a new key goes last.
DictSet(d, key, val) ==
    IF DictHas(d, key)
    THEN [n \in 1..Len(d) |-> IF d[n].k = key THEN [k |-> key, v |-> val] ELSE d[n]]
    ELSE Append(d, [k |-> key, v |-> val])

\* d.pop(key, None)
DictPop(d, key) == SelectSeq(d, LAMBDA it : it.k # key)

\* Python's == on dicts takes no account of the order: a dict as a function.
AsMap(d) == [key \in DictKeys(d) |-> DictGet(d, key)]

\* A filter (dict of dicts) as a function from field to function from operator.
FilterMap(f) == [key \in DictKeys(f) |-> AsMap(DictGet(f, key))]

(***************************************************************************)
(* Field context of the task commands                                      *)
(***************************************************************************)
F_tags == <<"t","a","g","s">>
F_prio == <<"p","r","i","o">>
F_priority == <<"p","r","i","o","r","i","t","y">>
F_size == <<"s","i","z","e">>
F_a == <<"a">>
F_b == <<"b">>

F_id == <<"i","d">>
F_title == <<"t","i","t","l","e">>
F_description == <<"d","e","s","c","r","i","p","t","i","o","n">>
F_status == <<"s","t","a","t","u","s">>
F_created == <<"c","r","e","a","t","e","d">>
F_updated == <<"u","p","d","a","t","e","d">>
F_due_date == <<"d","u","e","_","d","a","t","e">>
F_assigned_to == <<"a","s","s","i","g","n","e","d","_","t","o">>
F_project == <<"p","r","o","j","e","c","t">>

\* TASK_FIELDS
TASK_FIELDS ==
    {F_id, F_title, F_description, F_status, F_priority, F_tags, F_created, F_updated,
     F_due_date, F_assigned_to, F_project}

\* TASK_ALIASES
TASK_ALIASES ==
    << [k |-> <<"d","e","s","c">>, v |-> F_description], [k |-> F_prio, v |-> F_priority] >>

\* A multiplier table as the tests configure it: {"size": 1024}.
SIZE_MULTIPLIERS == << [k |-> F_size, v |-> 1024] >>

(***************************************************************************)
(* parse_query                                                             *)
(***************************************************************************)
\* The dict op_names: the operator kind of each spelling ("" for a text that
\* is no key).
op_names_dict(op) ==
    CASE op = <<">","=">> -> "gte"
      [] op = <<">">> -> "gt"
      [] op = <<"g","t">> -> "gt"
      [] op = <<"g","t","e">> -> "gte"
      [] op = <<"<","=">> -> "lte"
      [] op = <<"<">> -> "lt"
      [] op = <<"l","t">> -> "lt"
      [] op = <<"l","t","e">> -> "lte"
      [] op = <<"!","=">> -> "neq"
      [] op = <<"=","=">> -> "eq"
      [] op = <<"=">> -> "eq"
      [] op = <<"e","q">> -> "eq"
      [] op = <<"n","e","q">> -> "neq"
      [] op = <<"n","o","t","e","q">> -> "neq"
      [] op = <<"n","o","t"," ","e","q">> -> "neq"
      [] op = <<"n","o","t","i","n">> -> "notin"
      [] op = <<"n","o","t"," ","i","n">> -> "notin"
      [] op = <<"n","i","n">> -> "notin"
      [] op = <<"i","n">> -> "in"
      [] OTHER -> ""

\* op_names.get(op), with a text that is no key taken for an equality.
op_names_lenient(op) ==
    IF op_names_dict(op) = "" THEN "eq" ELSE op_names_dict(op)

\* op_names.get(op), with the spaced spellings not looked up as they are matched.
op_names_unspaced(op) ==
    IF SP \in {op[n] : n \in 1..Len(op)} THEN "" ELSE op_names_dict(op)

\* op_names.get(op): "" for None.
op_names(op) == op_names_dict(op)

\* value in ["?", "*", "any"]
IsWildcard(value) == value \in {<<"?">>, <<"*">>, <<"a","n","y">>}

\* The list comprehension without its v.strip(): the elements keep the spaces
\* around them, and an element of spaces only is kept.
ListElements_untrimmed(value) ==
    LET parts == SplitComma(value)
        kept == SelectSeq(parts, LAMBDA v : v # <<>>)
    IN  [n \in 1..Len(kept) |-> ReplaceUnderscore(kept[n])]

\* [v.strip().replace('_', ' ') for v in value.split(",") if v.strip()]
ListElements(value) ==
    LET parts == SplitComma(value)
        kept == SelectSeq(parts, LAMBDA v : Strip(v) # <<>>)
    IN  [n \in 1..Len(kept) |-> ReplaceUnderscore(Strip(kept[n]))]

\* The value of a digit string.
RECURSIVE DigitsValue(_)
DigitValue(c) ==
    CASE c = "0" -> 0 [] c = "1" -> 1 [] c = "2" -> 2 [] c = "3" -> 3
      [] c = "4" -> 4 [] c = "5" -> 5 [] c = "6" -> 6 [] c = "7" -> 7
      [] c = "8" -> 8 [] c = "9" -> 9
DigitsValue(s) ==
    IF s = <<>> THEN 0
    ELSE 10 * DigitsValue(SubSeq(s, 1, Len(s) - 1)) + DigitValue(s[Len(s)])

\* The digits of a number text before its point, and what follows the point.
WholePart(s) == SubSeq(s, 1, Span(s, 1, Digits) - 1)
PointPart(s) == SubSeq(s, Span(s, 1, Digits), Len(s))

\* float(value) succeeds: on the texts of this model (no sign, exponent, inf
\* or nan among them, a digit before every point and only zeros after it)
\* float() accepts
\* exactly a run of digits, or such a run followed by a point and zeros, with
\* spaces around it, and raises ValueError otherwise; a list raises TypeError.
FloatOk(v) ==
    /\ IsStr(v)
    /\ WholePart(Strip(v.str)) # <<>>
    /\ \/ PointPart(Strip(v.str)) = <<>>
       \/ /\ Head(PointPart(Strip(v.str))) = "."
          /\ \A n \in 2..Len(PointPart(Strip(v.str))) : PointPart(Strip(v.str))[n] = "0"

\* float(value) of such a text.
FloatValue(s) == DigitsValue(WholePart(Strip(s)))

\* The list or the scalar of a clause: a list for in and notin, for every other
\* operator the text with its underscores replaced.
Shaped(op_name, value) ==
    IF op_name \in {"in", "notin"}
    THEN ListV(ListElements(value))
    ELSE StrV(ReplaceUnderscore(value))

\* The multiplier step with a value that float() rejects taken for zero.
Multiplied_zeroing(field, value, field_multipliers) ==
    IF DictHas(field_multipliers, field)
    THEN NumV((IF FloatOk(value) THEN FloatValue(value.str) ELSE 0)
                    * DictGet(field_multipliers, field))
    ELSE value

\* if field in field_multipliers: try: value = float(value) *
\* field_multipliers[field]; except (ValueError, TypeError): pass
Multiplied(field, value, field_multipliers) ==
    IF DictHas(field_multipliers, field) /\ FloatOk(value)
    THEN NumV(FloatValue(value.str) * DictGet(field_multipliers, field))
    ELSE value

\* The coercion with the literals compared without regard to case.
Coerced_caseless(value) ==
    IF ~IsStr(value) THEN value
    ELSE IF value.str \in {<<"t","r","u","e">>, <<"T","r","u","e">>, <<"T","R","U","E">>}
        THEN BoolV(TRUE)
    ELSE IF value.str \in {<<"f","a","l","s","e">>, <<"F","a","l","s","e">>,
                           <<"F","A","L","S","E">>}
        THEN BoolV(FALSE)
    ELSE IF value.str \in {<<"N","o","n","e">>, <<"n","o","n","e">>, <<"N","O","N","E">>,
                           <<"n","u","l","l">>, <<"N","u","l","l">>, <<"N","U","L","L">>}
        THEN NoneV
    ELSE value

\* The type coercion: value == 'true' or value == 'True', and so on; a list
\* and a number equal none of the six literals.
Coerced(value) ==
    IF value \in {StrV(<<"t","r","u","e">>), StrV(<<"T","r","u","e">>)}
        THEN BoolV(TRUE)
    ELSE IF value \in {StrV(<<"f","a","l","s","e">>), StrV(<<"F","a","l","s","e">>)}
        THEN BoolV(FALSE)
    ELSE IF value \in {StrV(<<"N","o","n","e">>), StrV(<<"n","u","l","l">>)}
        THEN NoneV
    ELSE value

\* Steps 7 to 9 of a clause: the value as it is stored.
ShapeValue(field, op_name, value, field_multipliers) ==
    Coerced(Multiplied(field, Shaped(op_name, value), field_multipliers))

\* The alias table applied until the name is no alias (on tables without a
\* cycle of more than two names).
ResolveField_transitive(field, field_aliases) ==
    LET once == IF DictHas(field_aliases, field) THEN DictGet(field_aliases, field) ELSE field
    IN  IF DictHas(field_aliases, once) /\ DictGet(field_aliases, once) # field
        THEN DictGet(field_aliases, once) ELSE once

\* The field a clause addresses: field_aliases applied once.
ResolveField(field, field_aliases) ==
    IF DictHas(field_aliases, field) THEN DictGet(field_aliases, field) ELSE field

\* result.pop(field, None) of a wildcard clause: the field leaves result, and
\* with it the inner dict that result shared with base.
RemoveField_eqOnly(st, field) ==
    IF DictHas(st.result, field)
    THEN [st EXCEPT !.result = DictSet(@, field, DictPop(DictGet(st.result, field), "eq"))]
    ELSE st

RemoveField(st, field) ==
    [st EXCEPT !.result = DictPop(@, field), !.shared = @ \ {field}]

\* if op_name != "eq": raise, for a wildcard value.
WildcardRaises_never(op_name) == FALSE

WildcardRaises(op_name) == op_name # "eq"

\* result[field][op_name] = value, after  if field not in result: result[field]
\* = {} ; the inner dict written is base's own when result shares it.
StoreValue_replacing(st, field, op_name, value) ==
    [st EXCEPT !.result = DictSet(@, field, << [k |-> op_name, v |-> value] >>)]

StoreValue(st, field, op_name, value) ==
    LET inner == IF DictHas(st.result, field) THEN DictGet(st.result, field) ELSE <<>>
        written == DictSet(inner, op_name, value)
    IN  [st EXCEPT !.result = DictSet(@, field, written),
                   !.base = IF field \in st.shared THEN DictSet(@, field, written) ELSE @]

\* The validation of a field with an unrecognized field raising.
Validate_strict(st, field, valid_fields) ==
    IF valid_fields # {} /\ field \notin valid_fields
    THEN [st EXCEPT !.err = "Unrecognized field"]
    ELSE st

\* if valid_fields and field not in valid_fields: print(warning)
Validate(st, field, valid_fields) ==
    IF valid_fields # {} /\ field \notin valid_fields
    THEN [st EXCEPT !.warnings = Append(@, field)]
    ELSE st

\* The body of the loop of parse_query for one match m.  st is the state of
\* the call: result (the dict being built), base (the caller's base_query
\* object), before (what base_query held when the call began), shared (the
\* fields whose inner dict in result is the very object base holds:
\* base_query.copy() is a shallow copy), warnings, and err ("" as long as
\* nothing was raised).
ProcessClause(st, m, valid_fields, field_aliases, field_multipliers) ==
    LET value == StripChars(m.value, {",", "[", "]", "\""})
        op == Strip(m.op)
        op_name == op_names(op)
        field == ResolveField(m.field, field_aliases)
        warned == Validate(st, field, valid_fields)
        stored == ShapeValue(field, op_name, value, field_multipliers)
    IN  IF op_name = "" THEN [warned EXCEPT !.err = "Unknown operator"]
        ELSE IF value = <<>> THEN [warned EXCEPT !.err = "Value cannot be blank"]
        ELSE IF IsWildcard(value)
        THEN IF WildcardRaises(op_name)
             THEN [warned EXCEPT !.err = "Wildcard only valid with '=' operator"]
             ELSE RemoveField(warned, field)
        ELSE StoreValue(warned, field, op_name, stored)

\* The loop over the matches; it stops at the first clause that raises.
RECURSIVE ProcessClauses(_, _, _, _, _)
ProcessClauses(st, matches, valid_fields, field_aliases, field_multipliers) ==
    IF matches = <<>> \/ st.err # "" THEN st
    ELSE ProcessClauses(
            ProcessClause(st, Head(matches), valid_fields, field_aliases,
                          field_multipliers),
            Tail(matches), valid_fields, field_aliases, field_multipliers)

\* The state of a call before its loop.
StartState(base_query) ==
    [result |-> base_query, base |-> base_query, before |-> base_query,
     shared |-> DictKeys(base_query), warnings |-> <<>>, err |-> ""]

\* parse_query without its check that the matches consume the text.
parse_query_unchecked(query_list, base_query, valid_fields, field_aliases, field_multipliers) ==
    LET query_str == Strip(JoinSpace(query_list))
    IN  IF query_str = <<>> THEN StartState(base_query)
        ELSE ProcessClauses(StartState(base_query), findall(query_str, 1), valid_fields,
                            field_aliases, field_multipliers)

\* parse_query(query_str, base_query, valid_fields, field_aliases,
\* field_multipliers) for a list query_str: what it returns (result) or raises
\* (err), what it leaves in the caller's base_query (base) and what it warned.
parse_query(query_list, base_query, valid_fields, field_aliases, field_multipliers) ==
    LET joined == JoinSpace(query_list)
        query_str == Strip(joined)
        matches == findall(query_str, 1)
    IN  IF query_str = <<>> THEN StartState(base_query)
        ELSE IF reconstructed(matches) # query_str
        THEN [StartState(base_query) EXCEPT !.err = "Failed to parse query"]
        ELSE ProcessClauses(StartState(base_query), matches, valid_fields,
                            field_aliases, field_multipliers)

(***************************************************************************)
(* SQLiteBackend.search_tasks: the SQL text and the bound parameters       *)
(***************************************************************************)
\* The query dict handed to search_tasks holds, under each key, a dict of
\* conditions, the order list or the limit: isinstance() tells them apart.
DictOf(d) == [dict |-> d]
OrderOf(l) == [order |-> l]
IntOf(n) == [int |-> n]

IsDict(v) == DOMAIN v = {"dict"}

K_order == <<"o","r","d","e","r">>
K_limit == <<"l","i","m","i","t">>

\* The filter parse_query returned, as the query dict it is.
AsQuery(filter) ==
    [n \in 1..Len(filter) |-> [k |-> filter[n].k, v |-> DictOf(filter[n].v)]]

LowerCase == <<"a","b","c","d","e","f","g","h","i","j","k","l","m","n","o","p",
               "q","r","s","t","u","v","w","x","y","z">>
UpperCase == <<"A","B","C","D","E","F","G","H","I","J","K","L","M","N","O","P",
               "Q","R","S","T","U","V","W","X","Y","Z">>

\* str.upper()
Upper(s) ==
    [n \in 1..Len(s) |->
        IF \E m \in 1..26 : LowerCase[m] = s[n]
        THEN UpperCase[CHOOSE m \in 1..26 : LowerCase[m] = s[n]]
        ELSE s[n]]

\* sep.join(parts) for texts.
RECURSIVE Join(_, _)
Join(parts, sep) ==
    IF parts = <<>> THEN <<>>
    ELSE IF Len(parts) = 1 THEN parts[1]
    ELSE parts[1] \o sep \o Join(Tail(parts), sep)

\* What  for x in value  yields: the elements of a list, the characters of a
\* str; any other value is not iterable.
Iterable(value) == IsList(value) \/ IsStr(value)
Elements(value) ==
    IF IsList(value) THEN value.list
    ELSE [n \in 1..Len(value.str) |-> <<value.str[n]>>]

\* ','.join(['?' for _ in value])
Placeholders(value) == Join([n \in 1..Len(Elements(value)) |-> <<"?">>], <<",">>)

\* A comparison with the value written into the statement.
Comparison_inline(field, text, value) ==
    [where |-> << field \o <<text>> \o (IF IsStr(value) THEN value.str ELSE <<>>) >>,
     params |-> <<value>>, err |-> ""]

\* where_clauses.append(f"{field} <op> ?"); params.append(value)
Comparison(field, text, value) ==
    [where |-> << field \o <<text>> >>, params |-> <<value>>, err |-> ""]

\* The tags of a list matched by one LIKE on the first of them.
TagsLike_firstOnly(value) ==
    [where |-> IF Elements(value) = <<>> THEN <<>> ELSE << <<"tags LIKE ?">> >>,
     params |-> IF Elements(value) = <<>> THEN <<>>
                ELSE << StrV(<<"%", "\"">> \o Elements(value)[1] \o <<"\"", "%">>) >>,
     err |-> ""]

\* for tag in value: where_clauses.append("tags LIKE ?");
\* params.append(f'%"{tag}"%')
TagsLike(value) ==
    [where |-> [n \in 1..Len(Elements(value)) |-> <<"tags LIKE ?">>],
     params |-> [n \in 1..Len(Elements(value)) |->
                    StrV(<<"%", "\"">> \o Elements(value)[n] \o <<"\"", "%">>)],
     err |-> ""]

\* where_clauses.append(f"{field} [NOT] IN ({placeholders})");
\* params.extend(value)
InList(field, text, value) ==
    [where |-> << field \o <<text>> \o Placeholders(value) \o <<")">> >>,
     params |-> [n \in 1..Len(Elements(value)) |-> StrV(Elements(value)[n])],
     err |-> ""]

\* One (op, value) condition on a field: the where clauses and the parameters
\* it appends, and whether it raises.
Condition(field, op, value) ==
    LET none == [where |-> <<>>, params |-> <<>>, err |-> ""]
        fail == [where |-> <<>>, params |-> <<>>, err |-> "TypeError"]
    IN  CASE op = "eq" -> Comparison(field, " = ?", value)
          [] op = "neq" -> Comparison(field, " != ?", value)
          [] op = "gt" -> Comparison(field, " > ?", value)
          [] op = "gte" -> Comparison(field, " >= ?", value)
          [] op = "lt" -> Comparison(field, " < ?", value)
          [] op = "lte" -> Comparison(field, " <= ?", value)
          [] op = "in" ->
                IF ~Iterable(value) THEN fail
                ELSE IF field = F_tags THEN TagsLike(value)
                ELSE InList(field, " IN (", value)
          [] op = "notin" ->
                IF ~Iterable(value) THEN fail
                ELSE InList(field, " NOT IN (", value)
          [] OTHER -> none

\* The inner loop: the conditions of one field, in the dict's order.
RECURSIVE Conditions(_, _)
Conditions(field, conditions) ==
    IF conditions = <<>> THEN [where |-> <<>>, params |-> <<>>, err |-> ""]
    ELSE LET h == Condition(field, Head(conditions).k, Head(conditions).v)
             r == Conditions(field, Tail(conditions))
         IN  IF h.err # "" THEN h
             ELSE [where |-> h.where \o r.where, params |-> h.params \o r.params,
                   err |-> r.err]

\* The outer loop: the items of the query dict, in its order; the keys order
\* and limit and every value that is no dict are passed over.
RECURSIVE WhereClauses(_)
WhereClauses(query) ==
    IF query = <<>> THEN [where |-> <<>>, params |-> <<>>, err |-> ""]
    ELSE LET it == Head(query)
             r == WhereClauses(Tail(query))
             h == IF it.k \in {K_order, K_limit} \/ ~IsDict(it.v)
                  THEN [where |-> <<>>, params |-> <<>>, err |-> ""]
                  ELSE Conditions(it.k, it.v.dict)
         IN  IF h.err # "" THEN h
             ELSE [where |-> h.where \o r.where, params |-> h.params \o r.params,
                   err |-> r.err]

\* query['order'] is truthy.
HasOrder(query) ==
    /\ DictHas(query, K_order)
    /\ \/ DOMAIN DictGet(query, K_order) = {"order"} /\ DictGet(query, K_order).order # <<>>
       \/ IsDict(DictGet(query, K_order)) /\ DictGet(query, K_order).dict # <<>>
       \/ DOMAIN DictGet(query, K_order) = {"int"} /\ DictGet(query, K_order).int # 0

\* The characters of an operator kind (a key of a conditions dict).
KindChars(kind) ==
    CASE kind = "eq" -> <<"e","q">>
      [] kind = "neq" -> <<"n","e","q">>
      [] kind = "gt" -> <<"g","t">>
      [] kind = "gte" -> <<"g","t","e">>
      [] kind = "lt" -> <<"l","t">>
      [] kind = "lte" -> <<"l","t","e">>
      [] kind = "in" -> <<"i","n">>
      [] kind = "notin" -> <<"n","o","t","i","n">>

\* The (field, direction) pairs  for field, direction in query['order']  yields:
\* the pairs of an order list; of a dict, its keys, each unpacked into two
\* characters (a key of any other length does not unpack).
OrderPairs(v) ==
    IF DOMAIN v = {"order"} THEN v.order
    ELSE [n \in 1..Len(v.dict) |->
            << <<KindChars(v.dict[n].k)[1]>>, <<KindChars(v.dict[n].k)[2]>> >>]

OrderUnpacks(v) ==
    \/ DOMAIN v = {"order"}
    \/ IsDict(v) /\ \A n \in 1..Len(v.dict) : Len(KindChars(v.dict[n].k)) = 2

DEFAULT_LIMIT == 100

\* The order of the statement with the directions as they are given.
OrderBy_asGiven(pairs) ==
    Join([n \in 1..Len(pairs) |-> pairs[n][1] \o <<" ">> \o pairs[n][2]], <<", ">>)

\* order_parts.append(f"{field} {direction.upper()}") for each pair;
\* ', '.join(order_parts)
OrderBy(pairs) ==
    Join([n \in 1..Len(pairs) |-> pairs[n][1] \o <<" ">> \o Upper(pairs[n][2])], <<", ">>)

\* search_tasks(query) up to the execution of the statement: the SQL text, the
\* parameter list, and err when building them raises.
search_tasks(query) ==
    LET w == WhereClauses(query)
        where_sql == IF w.where # <<>> THEN Join(w.where, <<" AND ">>) ELSE <<"1=1">>
        ord == DictGet(query, K_order)
        order_by ==
            IF HasOrder(query)
            THEN OrderBy(OrderPairs(ord))
            ELSE <<"priority DESC, created DESC">>
        limit == IF DictHas(query, K_limit) THEN DictGet(query, K_limit)
                 ELSE IntOf(DEFAULT_LIMIT)
    IN  IF w.err # "" THEN [sql |-> <<>>, params |-> <<>>, err |-> w.err]
        ELSE IF HasOrder(query) /\ ~OrderUnpacks(ord)
        THEN [sql |-> <<>>, params |-> <<>>, err |-> "ValueError"]
        ELSE [sql |-> <<"SELECT * FROM tasks WHERE ">> \o where_sql
                        \o <<" ORDER BY ">> \o order_by \o <<" LIMIT ?">>,
              params |-> Append(w.params, limit),
              err |-> ""]

(***************************************************************************)
(* SQLite: table tasks and the execution of the statement                  *)
(***************************************************************************)
\* The columns of CREATE TABLE tasks; a row is a function from them to values:
\* NULL is NoneV, a number NumV(n), a text StrV(s).
Columns ==
    {F_id, F_title, F_description, F_status, F_priority, F_tags, F_created, F_updated,
     F_due_date, F_assigned_to, F_project}

\* The columns declared INTEGER or REAL (numeric affinity); the others are TEXT.
NumericColumns == {F_id, F_priority, F_created, F_updated, F_due_date}

\* DEFAULT 'pending', DEFAULT 5; a column without a default is NULL.
ColumnDefault(c) ==
    IF c = F_status THEN StrV(<<"p","e","n","d","i","n","g">>)
    ELSE IF c = F_priority THEN NumV(5)
    ELSE NoneV

\* json.dumps of a list of plain words: ["x", "y"]
json_dumps(l) ==
    <<"[">> \o Join([n \in 1..Len(l) |-> <<"\"">> \o l[n] \o <<"\"">>], <<",", " ">>)
        \o <<"]">>

\* json.loads of such a text: the words between the quotes.
RECURSIVE json_loads(_)
json_loads(s) ==
    IF \A n \in 1..Len(s) : s[n] # "\"" THEN <<>>
    ELSE LET open == CHOOSE n \in 1..Len(s) : s[n] = "\"" /\ \A m \in 1..(n - 1) : s[m] # "\""
             rest == SubSeq(s, open + 1, Len(s))
             close == CHOOSE n \in 1..Len(rest) :
                          rest[n] = "\"" /\ \A m \in 1..(n - 1) : rest[m] # "\""
         IN  <<SubSeq(rest, 1, close - 1)>> \o json_loads(SubSeq(rest, close + 1, Len(rest)))

\* create_task(task_data) at time t with the id SQLite assigns: the row
\* INSERT stores. A list of tags is stored as its JSON text.
NewRow(task_data, id, t) ==
    [c \in Columns |->
        IF c = F_id THEN NumV(id)
        ELSE IF c \in {F_created, F_updated} THEN NumV(t)
        ELSE IF ~DictHas(task_data, c) THEN ColumnDefault(c)
        ELSE IF c = F_tags /\ IsList(DictGet(task_data, c))
             THEN StrV(json_dumps(DictGet(task_data, c).list))
        ELSE DictGet(task_data, c)]

\* _row_to_dict(row): the row with its tags decoded when there are any.
row_to_dict(row) ==
    IF IsStr(row[F_tags]) /\ row[F_tags].str # <<>>
    THEN [row EXCEPT ![F_tags] = ListV(json_loads(row[F_tags].str))]
    ELSE row

\* Column names are matched whatever their case.
IsColumn(name) == \E c \in Columns : Upper(c) = Upper(name)
ColumnOf(name) == CHOOSE c \in Columns : Upper(c) = Upper(name)

\* The first position from i on where s holds an element of cs (Len(s) + 1
\* when there is none), and s cut at every chunk c.
RECURSIVE Find(_, _, _)
Find(s, i, cs) ==
    IF i > Len(s) \/ s[i] \in cs THEN i ELSE Find(s, i + 1, cs)

IndexOf(s, c) == Find(s, 1, {c})

RECURSIVE SplitAt(_, _)
SplitAt(s, c) ==
    LET n == IndexOf(s, c)
    IN  IF n > Len(s) THEN <<s>>
        ELSE <<SubSeq(s, 1, n - 1)>> \o SplitAt(SubSeq(s, n + 1, Len(s)), c)

\* The statement as SQLite reads it: the predicates between WHERE and ORDER BY,
\* cut at AND, and the terms between ORDER BY and LIMIT.
WherePart(stmt) == SubSeq(stmt, 2, IndexOf(stmt, " ORDER BY ") - 1)
OrderPart(stmt) == SubSeq(stmt, IndexOf(stmt, " ORDER BY ") + 1, Len(stmt) - 1)
Predicates(stmt) == SplitAt(WherePart(stmt), " AND ")

\* The operators search_tasks writes after a column.
OperatorTexts == {" = ?", " != ?", " > ?", " >= ?", " < ?", " <= ?", " IN (", " NOT IN ("}

\* A predicate read as (column, operator, number of parameters).
IsConstant(p) == p = <<"1=1">>
IsTagsLike(p) == p = <<"tags LIKE ?">>
OperatorAt(p) == Find(p, 1, OperatorTexts)
HasOperator(p) == OperatorAt(p) <= Len(p)
PredicateColumn(p) == IF IsTagsLike(p) THEN F_tags ELSE SubSeq(p, 1, OperatorAt(p) - 1)
PredicateOperator(p) == IF IsTagsLike(p) THEN " LIKE ?" ELSE p[OperatorAt(p)]
PredicateArity(p) ==
    IF IsConstant(p) THEN 0
    ELSE IF IsTagsLike(p) THEN 1
    ELSE IF p[OperatorAt(p)] \in {" IN (", " NOT IN ("}
    THEN Cardinality({n \in 1..Len(p) : p[n] = "?"})
    ELSE 1

\* IN () and NOT IN (): SQLite reads a test against the empty list as the
\* constant false or true, whatever stands on its left.
IsEmptyIn(p) == HasOperator(p) /\ p[OperatorAt(p)] = " IN (" /\ PredicateArity(p) = 0
IsEmptyNotIn(p) == HasOperator(p) /\ p[OperatorAt(p)] = " NOT IN (" /\ PredicateArity(p) = 0

\* The predicate compiles: it names a column of the table or is a constant.
PredicateCompiles(p) ==
    \/ IsConstant(p) \/ IsTagsLike(p) \/ IsEmptyIn(p) \/ IsEmptyNotIn(p)
    \/ HasOperator(p) /\ IsColumn(PredicateColumn(p))

\* WHERE compiles: every predicate does, or one of them is the constant
\* false, which makes the conjunction that constant before any name in it is
\* looked up.
WhereCompiles(preds) ==
    \/ \E k \in 1..Len(preds) : IsEmptyIn(preds[k])
    \/ \A k \in 1..Len(preds) : PredicateCompiles(preds[k])

\* One term of ORDER BY: a column and ASC, DESC or nothing.
TermColumn(term) == SubSeq(term, 1, IndexOf(term, SP) - 1)
TermDirection(term) == SubSeq(term, IndexOf(term, SP) + 1, Len(term))
TermCompiles(term) ==
    /\ IsColumn(TermColumn(term))
    /\ TermDirection(term) \in {<<>>, <<"A","S","C">>, <<"D","E","S","C">>}

\* The sort keys of the statement: (column, descending) pairs.
IsDefaultOrder(stmt) == OrderPart(stmt) = <<"priority DESC, created DESC">>
OrderTerms(stmt) == SplitAt(OrderPart(stmt), ", ")
OrderCompiles(stmt) ==
    LET terms == OrderTerms(stmt)
    IN  IsDefaultOrder(stmt) \/ \A n \in 1..Len(terms) : TermCompiles(terms[n])
OrderKeys(stmt) ==
    LET terms == OrderTerms(stmt)
    IN  IF IsDefaultOrder(stmt) THEN << <<F_priority, TRUE>>, <<F_created, TRUE>> >>
        ELSE [n \in 1..Len(terms) |->
                << ColumnOf(TermColumn(terms[n])),
                   TermDirection(terms[n]) = <<"D","E","S","C">> >>]

\* The values sqlite3 binds: None, bool, int, float and str.
Bindable(v) == DOMAIN v \in {{"none"}, {"bool"}, {"int"}, {"num"}, {"str"}}

\* The decimal text of a natural number.
RECURSIVE Decimal(_)
Decimal(n) ==
    IF n < 10 THEN <<CHOOSE c \in Digits : DigitValue(c) = n>>
    ELSE Decimal(n \div 10) \o Decimal(n % 10)

\* A bound parameter compared with a column, after the column's affinity is
\* applied to it: against a numeric column a text of digits becomes the number,
\* against a TEXT column a number becomes its text (a float with its .0).
Operand(column, v) ==
    CASE DOMAIN v = {"none"} -> NoneV
      [] DOMAIN v = {"str"} ->
            IF column \in NumericColumns /\ v.str # <<>>
                   /\ \A n \in 1..Len(v.str) : v.str[n] \in Digits
            THEN NumV(DigitsValue(v.str))
            ELSE v
      [] DOMAIN v = {"bool"} ->
            IF column \in NumericColumns THEN NumV(IF v.bool THEN 1 ELSE 0)
            ELSE StrV(IF v.bool THEN <<"1">> ELSE <<"0">>)
      [] DOMAIN v = {"int"} ->
            IF column \in NumericColumns THEN NumV(v.int) ELSE StrV(Decimal(v.int))
      [] DOMAIN v = {"num"} ->
            IF column \in NumericColumns THEN v ELSE StrV(Decimal(v.num) \o <<".", "0">>)

\* The characters of the texts at hand, in the order of their codes.
Ascii ==
    <<" ", "\"", "%", "'", ",", "-", ".">>
        \o <<"0","1","2","3","4","5","6","7","8","9">>
        \o <<";", "=">> \o UpperCase \o <<"[", "]", "_">> \o LowerCase
Code(c) == CHOOSE n \in 1..Len(Ascii) : Ascii[n] = c

\* memcmp order of two texts (collation BINARY).
RECURSIVE TextLess(_, _)
TextLess(s, t) ==
    IF t = <<>> THEN FALSE
    ELSE IF s = <<>> THEN TRUE
    ELSE IF s[1] = t[1] THEN TextLess(Tail(s), Tail(t))
    ELSE Code(s[1]) < Code(t[1])

\* The order of two values that are not NULL: a number is less than any text.
ValueLess(u, v) ==
    IF DOMAIN u = {"num"} THEN (IF DOMAIN v = {"num"} THEN u.num < v.num ELSE TRUE)
    ELSE (IF DOMAIN v = {"num"} THEN FALSE ELSE TextLess(u.str, v.str))

\* pattern LIKE text: % is any run of characters, _ any one character, and
\* letters match whatever their case.
RECURSIVE Like(_, _)
Like(pattern, text) ==
    IF pattern = <<>> THEN text = <<>>
    ELSE IF pattern[1] = "%"
    THEN \E n \in 0..Len(text) : Like(Tail(pattern), SubSeq(text, n + 1, Len(text)))
    ELSE /\ text # <<>>
         /\ pattern[1] = "_" \/ Upper(<<pattern[1]>>) = Upper(<<text[1]>>)
         /\ Like(Tail(pattern), Tail(text))

\* The predicate is true of the row with the parameters ps bound to its
\* question marks; a comparison with NULL is not true.
PredicateTrue(p, ps, row) ==
    IF IsConstant(p) \/ IsEmptyNotIn(p) THEN TRUE
    ELSE IF IsEmptyIn(p) THEN FALSE
    ELSE LET column == ColumnOf(PredicateColumn(p))
             op == PredicateOperator(p)
             left == row[column]
             right == [n \in 1..Len(ps) |-> Operand(column, ps[n])]
             known == left # NoneV /\ right[1] # NoneV
         IN  CASE op = " = ?" -> known /\ left = right[1]
               [] op = " != ?" -> known /\ left # right[1]
               [] op = " > ?" -> known /\ ValueLess(right[1], left)
               [] op = " >= ?" -> known /\ ~ValueLess(left, right[1])
               [] op = " < ?" -> known /\ ValueLess(left, right[1])
               [] op = " <= ?" -> known /\ ~ValueLess(right[1], left)
               [] op = " LIKE ?" ->
                     known /\ Like(right[1].str, IF IsStr(left) THEN left.str ELSE <<>>)
               [] op = " IN (" ->
                     left # NoneV /\ \E n \in 1..Len(right) : left = right[n]
               [] op = " NOT IN (" ->
                     left # NoneV /\ \A n \in 1..Len(right) : left # right[n]

\* The parameters of the k-th predicate: each takes as many as it has
\* question marks, from the left.
RECURSIVE ParamsBefore(_, _)
ParamsBefore(preds, k) ==
    IF k = 1 THEN 0 ELSE ParamsBefore(preds, k - 1) + PredicateArity(preds[k - 1])

\* WHERE, the conjunction of the predicates, is true of the row.
RowMatches(preds, ps, row) ==
    /\ \A k \in 1..Len(preds) : ~IsEmptyIn(preds[k])
    /\ \A k \in 1..Len(preds) :
          LET before == ParamsBefore(preds, k)
          IN  PredicateTrue(preds[k],
                            SubSeq(ps, before + 1, before + PredicateArity(preds[k])), row)

\* Row r sorts strictly before row s under the keys: NULL is least, and the
\* rows are told apart by the first key they differ in.
RECURSIVE SortsBefore(_, _, _)
SortsBefore(keys, r, s) ==
    IF keys = <<>> THEN FALSE
    ELSE LET u == r[Head(keys)[1]]
             v == s[Head(keys)[1]]
             less(x, y) == x # y /\ (x = NoneV \/ (y # NoneV /\ ValueLess(x, y)))
         IN  IF u = v THEN SortsBefore(Tail(keys), r, s)
             ELSE IF Head(keys)[2] THEN less(v, u) ELSE less(u, v)

\* The orders ORDER BY may deliver the rows of a set in: rows the keys do not
\* tell apart come in any order.
SortedOrders(keys, rows) ==
    { o \in [1..Cardinality(rows) -> rows] :
        /\ \A i, j \in 1..Cardinality(rows) : i # j => o[i] # o[j]
        /\ \A i, j \in 1..Cardinality(rows) : i < j => ~SortsBefore(keys, o[j], o[i]) }

\* LIMIT n: the first n rows, all of them when n is negative.
Limited(rows, n) == IF n < 0 \/ n >= Len(rows) THEN rows ELSE SubSeq(rows, 1, n)

\* conn.execute(sql, params).fetchall() on the table, each row through
\* _row_to_dict: the lists of dicts the call may return, or the
\* CloudTaskException it raises when the statement does not compile, a
\* parameter cannot be bound or the limit is no integer.
execute(stmt, ps, table) ==
    LET preds == Predicates(stmt)
        limit == ps[Len(ps)]
        stored == {table[n] : n \in 1..Len(table)}
        matching == {row \in stored : RowMatches(preds, ps, row)}
    IN  IF \/ ~WhereCompiles(preds)
           \/ ~OrderCompiles(stmt)
           \/ \E n \in 1..Len(ps) : ~Bindable(ps[n])
           \/ DOMAIN limit # {"int"}
        THEN {[rows |-> <<>>, err |-> "CloudTaskException"]}
        ELSE {[rows |-> [n \in 1..Len(Limited(o, limit.int)) |-> row_to_dict(o[n])],
               err |-> ""] : o \in SortedOrders(OrderKeys(stmt), matching)}

(***************************************************************************)
(* Inputs                                                                  *)
(***************************************************************************)
\* The longest query text (the arguments joined by spaces) that is typed.
MaxQueryLen == 11

\* The most arguments a query is typed in.
MaxArgs == 3

T_x == <<"x">>
T_y == <<"y">>
T_any == <<"a","n","y">>

\* Every key of op_names.
Spellings ==
    { <<"=","=">>, <<"=">>, <<"e","q">>,
      <<"!","=">>, <<"n","e","q">>, <<"n","o","t","e","q">>, <<"n","o","t"," ","e","q">>,
      <<">">>, <<"g","t">>, <<">","=">>, <<"g","t","e">>,
      <<"<">>, <<"l","t">>, <<"<","=">>, <<"l","t","e">>,
      <<"i","n">>,
      <<"n","o","t","i","n">>, <<"n","o","t"," ","i","n">>, <<"n","i","n">> }

\* field op value  with single spaces.
Spaced(field, op, value) == field \o <<SP>> \o op \o <<SP>> \o value

\* Clauses without spaces, short enough for three of them to make one query.
CompactClauses ==
    { <<"a","=","x">>, <<"a","=","y">>, <<"a",">","5">>, <<"a","<","7">>,
      <<"b","=","x">>, <<"b",">","5">>, <<"a","=","*">> }

\* a <spelling> x  for every spelling.
SpelledClauses == { Spaced(F_a, s, T_x) : s \in Spellings }

\* Clauses whose operator text is no spelling, or is missing.
BadOperatorClauses ==
    { Spaced(F_a, <<"~","=">>, T_x), Spaced(F_a, <<"=",">">>, T_x),
      Spaced(F_a, <<"<",">">>, T_x), Spaced(F_a, <<"=","!">>, T_x),
      <<"a","=","!","x">>, <<"a"," ","x">>, <<"a"," ","e","q">>,
      Spaced(F_a, <<"i","n","x">>, T_x), <<"a">> }

\* Clauses with a wildcard value.
WildcardClauses ==
    { Spaced(F_a, <<"=">>, <<"?">>), Spaced(F_a, <<"=">>, T_any),
      Spaced(F_a, <<"e","q">>, <<"*">>), Spaced(F_a, <<"=","=">>, <<"\"","a","n","y","\"">>),
      Spaced(F_a, <<">","=">>, T_any), Spaced(F_a, <<"!","=">>, <<"*">>),
      Spaced(F_a, <<"i","n">>, <<"?">>), <<"t","a","g","s","=","*">>,
      <<"t","a","g","s"," ","i","n"," ","[","*","]">>, <<"p","r","i","o","=","*">> }

\* Clauses whose value is shaped, scaled or coerced, or is blank.
ValueClauses ==
    { Spaced(F_a, <<"=">>, <<"t","r","u","e">>), Spaced(F_a, <<"=">>, <<"N","o","n","e">>),
      Spaced(F_a, <<"=">>, <<"x","_","y">>), <<"a","=","\"","x"," ","y","\"">>,
      <<"a"," ","i","n"," ","[","x",",","y","]">>, <<"a"," ","i","n"," ","[","x",","," ","y","]">>,
      <<"a"," ","i","n"," ","["," ","]">>, <<"a"," ","n","i","n"," ","[","x",",","y","]">>,
      <<"a","=","[">>, <<"a","=","[","x">>,
      <<"t","a","g","s"," ","i","n"," ","x",",","y">>, <<"t","a","g","s"," ","i","n"," ","x">>,
      <<"t","a","g","s"," ","i","n"," ","[","x","]">>, <<"t","a","g","s","=","x">>,
      <<"t","a","g","s"," ","n","i","n"," ","x">>,
      <<"s","i","z","e",">","=","1","0">>, <<"s","i","z","e","=","x">>,
      <<"p","r","i","o",">","=","5">>, <<"p","r","i","o","=","x">>,
      <<"p","r","i","o","r","i","t","y","=","y">> }

\* Clauses with the six literals of the coercion, other casings of them, and a
\* literal as a list element and on the field with a multiplier.
LiteralClauses ==
    { <<"a","=","T","r","u","e">>, <<"a","=","f","a","l","s","e">>,
      <<"a","=","F","a","l","s","e">>, <<"a","=","n","u","l","l">>,
      <<"a","=","n","o","n","e">>, <<"a","=","T","R","U","E">>,
      <<"a"," ","i","n"," ","[","t","r","u","e","]">>,
      <<"s","i","z","e","=","t","r","u","e">>, <<"s","i","z","e","=","5">> }

\* Lists with empty elements, spaces and underscores, and a list on the field
\* with a multiplier.
ListClauses ==
    { <<"a"," ","i","n"," ","[","x",",",",","y","]">>, <<"a"," ","i","n"," ","[","_","x",",","]">>,
      <<"a"," ","i","n"," ","[","x","_","y","]">>, <<"a"," ","i","n"," ","[","y",",","x","]">>,
      <<"a"," ","i","n"," ","[","_","]">>,
      <<"s","i","z","e"," ","i","n"," ","[","5","]">> }

\* Clauses on fields named as the directives are.
DirectiveNameClauses ==
    { <<"o","r","d","e","r","=","x">>, <<"l","i","m","i","t","=","5">> }

\* Text that is no clause, or that leaves text outside every clause.
JunkTexts ==
    { <<"=","a">>, <<"[","x","]"," ","a","=","x">>, <<"a","=","[","x","]","=","b">>,
      <<"a","=","\"","x","\"","\"","y","\"">>, <<"a","=","x"," ","!">>,
      <<" ">> }

\* The arguments a query is made of.
ArgTexts ==
    CompactClauses \cup SpelledClauses \cup BadOperatorClauses \cup WildcardClauses
        \cup ValueClauses \cup JunkTexts \cup LiteralClauses \cup ListClauses
        \cup DirectiveNameClauses

V_x == StrV(T_x)

\* The base filters a caller passes: none, one constraint, and three fields of
\* which one has two operators.
BaseQueries ==
    { <<>>,
      << [k |-> F_a, v |-> << [k |-> "eq", v |-> V_x] >>] >>,
      << [k |-> F_a, v |-> << [k |-> "gt", v |-> StrV(<<"5">>)], [k |-> "neq", v |-> V_x] >>],
         [k |-> F_tags, v |-> << [k |-> "in", v |-> ListV(<<T_x>>)] >>],
         [k |-> F_priority, v |-> << [k |-> "eq", v |-> StrV(<<"7">>)] >>] >> }

\* What search__tasks adds to the parsed query: the order and the limit of the
\* command line (--order priority-, --limit 50, the defaults).
CLI_ORDER == OrderOf(<< <<F_priority, <<"d","e","s","c">> >> >>)
CLI_LIMIT == 50

\* The directives a caller of search_tasks puts into the query dict: none,
\* those of the command line, an empty order, and two sort keys with a limit
\* of one.
T_asc == <<"a","s","c">>
T_desc == <<"d","e","s","c">>
NoDirectives == <<>>
CliDirectives ==
    << [k |-> K_order, v |-> CLI_ORDER], [k |-> K_limit, v |-> IntOf(CLI_LIMIT)] >>
DirectiveCases ==
    { NoDirectives, CliDirectives,
      << [k |-> K_order, v |-> OrderOf(<<>>)] >>,
      << [k |-> K_order, v |-> OrderOf(<< <<F_a, T_asc>>, <<F_priority, T_desc>> >>)],
         [k |-> K_limit, v |-> IntOf(1)] >> }

\* query[key] = value for each directive.
RECURSIVE WithDirectives(_, _)
WithDirectives(query, directives) ==
    IF directives = <<>> THEN query
    ELSE WithDirectives(DictSet(query, Head(directives).k, Head(directives).v),
                        Tail(directives))

(***************************************************************************)
(* The state machine                                                       *)
(***************************************************************************)
\* args: the query arguments typed so far; base: the caller's base_query
\* object; ret: what the last parse_query call returned or raised; search_query: the
\* dict handed to search_tasks; sql, params: the statement it built; pc: input,
\* parsed, failed, searched (the statement was built and handed to SQLite) or
\* search failed; tasks: the rows of table tasks; seq: the largest id SQLite
\* has assigned; now: the last reading of time.time(); found: what
\* search_tasks returned or raised; order: args.order of the search command
\* (empty when search_tasks was called without the command); call: the last
\* call of create_task, update_task, delete_task or get_task, with the task
\* it returned (out) or the exception it raised (err); issued: the ids
\* create_task has returned; deleted: the ids delete_task has deleted; file:
\* the cache file (whether it exists, its text, its modification time); clock:
\* datetime.now(); cache_got: what the last get() returned, fresh until another
\* call or a tick of the clock follows; cache_put: the last set() or clear() of
\* the cache (its data and time); jobs: for each item of execute_concurrent,
\* where its worker_with_retry is (queued, ready to call func, sleeping, done),
\* the attempt of its loop, how many calls of func were made and how many
\* raised, whether one returned, and what the worker returned; returned: the
\* list execute_concurrent returned; max_retries, max_workers: its arguments.
NoRet ==
    [result |-> <<>>, base |-> <<>>, before |-> <<>>, shared |-> {},
     warnings |-> <<>>, err |-> ""]

NoFound == [rows |-> <<>>, err |-> ""]

\* No cache file; no get() yet; no set() yet.
NoFile == [exists |-> FALSE, text |-> <<>>, mtime |-> 0]
NoGot == [fresh |-> FALSE, value |-> <<>>]
NeverSet == [state |-> "never", data |-> <<>>, at |-> 0]

\* execute_concurrent has not returned.
NoReturn == [done |-> FALSE, list |-> <<>>]

NoCall == [name |-> "", id |-> 0, updates |-> <<>>, out |-> <<>>, err |-> ""]

Init ==
    /\ args = <<>>
    /\ base \in BaseQueries
    /\ pc = "input"
    /\ ret = NoRet
    /\ search_query = <<>>
    /\ sql = <<>>
    /\ params = <<>>
    /\ tasks = <<>>
    /\ seq = 0
    /\ now = 0
    /\ found = NoFound
    /\ order = <<>>
    /\ call = NoCall
    /\ issued = {}
    /\ deleted = {}
    /\ file = NoFile
    /\ clock = 0
    /\ cache_got = NoGot
    /\ cache_put = NeverSet
    /\ jobs = <<>>
    /\ returned = NoReturn
    /\ max_retries = 3
    /\ max_workers = 8

\* One more argument of the query (args.query, nargs="*").
AddArg(a) ==
    /\ pc = "input"
    /\ Len(args) < MaxArgs
    /\ Len(JoinSpace(Append(args, a))) <= MaxQueryLen
    /\ args' = Append(args, a)
    /\ UNCHANGED <<base, pc, ret, search_query, sql, params, tasks, seq, now, found, order, call, issued, deleted, file, clock, cache_got, cache_put, jobs, returned, max_retries, max_workers>>

\* parse_query(args, base, TASK_FIELDS, TASK_ALIASES, SIZE_MULTIPLIERS): the
\* call returns or raises, and the caller's base object is what the call left.
ParseQuery ==
    /\ pc = "input"
    /\ ret' = parse_query(args, base, TASK_FIELDS, TASK_ALIASES, SIZE_MULTIPLIERS)
    /\ base' = ret'.base
    /\ pc' = IF ret'.err = "" THEN "parsed" ELSE "failed"
    /\ UNCHANGED <<args, search_query, sql, params, tasks, seq, now, found, order, call, issued, deleted, file, clock, cache_got, cache_put, jobs, returned, max_retries, max_workers>>

\* backend.search_tasks(query) on the parsed filter, as it is or with the
\* directives of a caller.
SearchTasks(directives) ==
    /\ pc = "parsed"
    /\ search_query' = WithDirectives(AsQuery(ret.result), directives)
    /\ LET built == search_tasks(search_query')
       IN  /\ sql' = built.sql
           /\ params' = built.params
           /\ pc' = IF built.err = "" THEN "searched" ELSE "search failed"
           /\ found' \in IF built.err # "" THEN {[rows |-> <<>>, err |-> built.err]}
                          ELSE execute(sql', params', tasks)
    /\ UNCHANGED <<args, base, ret, tasks, seq, now, order, call, issued, deleted, file, clock, cache_got, cache_put, jobs, returned, max_retries, max_workers>>

Next ==
    \/ \E a \in ArgTexts : AddArg(a)
    \/ ParseQuery
    \/ \E d \in DirectiveCases : SearchTasks(d)

Spec == Init /\ [][Next]_vars

(***************************************************************************)
(* The store: tasks are created, then searched                             *)
(***************************************************************************)
MaxTasks == 2

\* The largest id given to a task, and the last reading of the clock.
MaxId == 3
MaxClock == 3

T_title == <<"t">>
T_alice == <<"a","l","i","c","e">>
T_none == <<"n","o","n","e">>

\* task_data as create__task builds it: title, priority and status always,
\* assigned_to and tags when they are given.
TaskData(priority, extra) ==
    << [k |-> F_title, v |-> StrV(T_title)],
       [k |-> F_priority, v |-> NumV(priority)],
       [k |-> F_status, v |-> StrV(<<"p","e","n","d","i","n","g">>)] >> \o extra

\* The tasks created: unassigned ones, one of alice, one whose assignee is
\* called none, and one with a tag.
TaskInputs ==
    { TaskData(5, <<>>),
      TaskData(8, <<>>),
      TaskData(8, << [k |-> F_assigned_to, v |-> StrV(T_alice)] >>),
      TaskData(5, << [k |-> F_assigned_to, v |-> StrV(T_none)] >>),
      TaskData(8, << [k |-> F_tags, v |-> ListV(<<T_x>>)],
                     [k |-> F_assigned_to, v |-> StrV(T_alice)] >>) }

\* The queries typed, each as one argument: the clause of the documented
\* examples on assigned_to, its spelling with None, and others.
Q_assigned_none == <<"a","s","s","i","g","n","e","d","_","t","o"," ","=","="," ","n","o","n","e">>
Q_assigned_None == <<"a","s","s","i","g","n","e","d","_","t","o"," ","=","="," ","N","o","n","e">>
StoreQueries ==
    { << Q_assigned_none >>,
      << Q_assigned_None >>,
      << <<"a","s","s","i","g","n","e","d","_","t","o"," ","!","="," ","a","l","i","c","e">> >>,
      << <<"a","s","s","i","g","n","e","d","_","t","o"," ","=","="," ","a","l","i","c","e">> >>,
      << <<"p","r","i","o","r","i","t","y"," ",">","="," ","8">> >>,
      << <<"p","r","i","o","r","i","t","y"," ",">","="," ","8"," ","a","s","s","i","g","n","e","d","_","t","o"," ","=","="," ","n","o","n","e">> >>,
      << <<"p","r","i","o","r","i","t","y"," ","<"," ","8"," ","s","t","a","t","u","s"," ","=","="," ","p","e","n","d","i","n","g">> >>,
      << <<"t","a","g","s"," ","i","n"," ","[","x","]">> >>,
      << <<"a","s","s","i","g","n","e","d","_","t","o"," ",">"," ","b">> >>,
      << <<"p","r","i","o","r","i","t","y"," ","i","n"," ","[","5",",","9","]">> >>,
      << <<"a","s","s","i","g","n","e","d","_","t","o"," ","n","o","t","i","n"," ","[","a","l","i","c","e","]">> >>,
      << <<"s","t","a","t","u","s"," ","i","n"," ","["," ","]">> >> }

\* The directives of a search on the store: none, those of the command line,
\* the oldest task only, and the tasks by assignee.
StoreDirectives ==
    { NoDirectives, CliDirectives,
      << [k |-> K_order, v |-> OrderOf(<< <<F_created, T_asc>> >>)],
         [k |-> K_limit, v |-> IntOf(1)] >>,
      << [k |-> K_order, v |-> OrderOf(<< <<F_assigned_to, T_asc>>, <<F_id, T_desc>> >>)] >> }

StoreInit ==
    /\ args = <<>>
    /\ base = <<>>
    /\ pc = "input"
    /\ ret = NoRet
    /\ search_query = <<>>
    /\ sql = <<>>
    /\ params = <<>>
    /\ tasks = <<>>
    /\ seq = 0
    /\ now = 0
    /\ found = NoFound
    /\ order = <<>>
    /\ call = NoCall
    /\ issued = {}
    /\ deleted = {}
    /\ file = NoFile
    /\ clock = 0
    /\ cache_got = NoGot
    /\ cache_put = NeverSet
    /\ jobs = <<>>
    /\ returned = NoReturn
    /\ max_retries = 3
    /\ max_workers = 8

\* The largest rowid of the table (0 when it is empty).
MaxRowid(table) ==
    IF table = <<>> THEN 0
    ELSE CHOOSE m \in {table[n][F_id].num : n \in 1..Len(table)} :
             \A n \in 1..Len(table) : table[n][F_id].num <= m

\* id INTEGER PRIMARY KEY AUTOINCREMENT: the id of the next INSERT is one more
\* than the largest id the table has ever been given by an INSERT
\* (sqlite_sequence) and than the largest id it holds now.
NextId(table, largest) ==
    (IF MaxRowid(table) > largest THEN MaxRowid(table) ELSE largest) + 1

\* backend.create_task(task_data) when elapsed has passed since the last
\* reading of the clock (nothing, when the clock is coarse): the row gets the
\* next id, and the call returns the stored task. (Tasks are created before
\* the query is typed; the two do not touch each other's state.)
CreateTask(task_data, elapsed) ==
    /\ pc = "input"
    /\ args = <<>>
    /\ Len(tasks) < MaxTasks
    /\ NextId(tasks, seq) <= MaxId
    /\ now + elapsed <= MaxClock
    /\ now' = now + elapsed
    /\ seq' = NextId(tasks, seq)
    /\ tasks' = Append(tasks, NewRow(task_data, seq', now'))
    /\ call' = [name |-> "create_task", id |-> 0, updates |-> task_data,
              out |-> <<row_to_dict(NewRow(task_data, seq', now'))>>, err |-> ""]
    /\ issued' = issued \cup {seq'}
    /\ UNCHANGED <<args, base, pc, ret, search_query, sql, params, found, order, deleted, file, clock, cache_got, cache_put, jobs, returned, max_retries, max_workers>>

\* The query of the command line (args.query).
TypeQuery(q) ==
    /\ pc = "input"
    /\ args = <<>>
    /\ args' = q
    /\ UNCHANGED <<base, pc, ret, search_query, sql, params, tasks, seq, now, found, order, call, issued, deleted, file, clock, cache_got, cache_put, jobs, returned, max_retries, max_workers>>

\* The --order texts typed: the default, one field ascending, the list of the
\* documented examples, one key with a plus sign, and two descending keys.
OrderTexts ==
    { <<"p","r","i","o","r","i","t","y","-">>,
      <<"c","r","e","a","t","e","d">>,
      <<"p","r","i","o","r","i","t","y","-",",","c","r","e","a","t","e","d">>,
      <<"i","d","+">>,
      <<"p","r","i","o","r","i","t","y","-",",","i","d","-">> }

\* str.rstrip(chars)
RStrip(s, cs) == SubSeq(s, 1, SpanBack(s, 1, Len(s), cs))

\* str.endswith(c)
EndsWith(s, c) == s # <<>> /\ s[Len(s)] = c

\* query["order"] and query["limit"] as search__tasks sets them from
\* args.order and args.limit.
CommandDirectives(text, limit) ==
    << [k |-> K_order,
        v |-> OrderOf(<< << RStrip(text, {"-", "+"}),
                            IF EndsWith(text, "-") THEN T_desc ELSE T_asc >> >>)],
       [k |-> K_limit, v |-> IntOf(limit)] >>

\* search tasks --order text: search__tasks adds its directives to the parsed
\* query and calls backend.search_tasks.
SearchCommand(text) ==
    /\ pc = "parsed"
    /\ order' = text
    /\ search_query' = WithDirectives(AsQuery(ret.result), CommandDirectives(text, CLI_LIMIT))
    /\ LET built == search_tasks(search_query')
       IN  /\ sql' = built.sql
           /\ params' = built.params
           /\ pc' = IF built.err = "" THEN "searched" ELSE "search failed"
           /\ found' \in IF built.err # "" THEN {[rows |-> <<>>, err |-> built.err]}
                          ELSE execute(sql', params', tasks)
    /\ UNCHANGED <<args, base, ret, tasks, seq, now, call, issued, deleted, file, clock, cache_got, cache_put, jobs, returned, max_retries, max_workers>>

StoreNext ==
    \/ \E d \in TaskInputs, elapsed \in 0..1 : CreateTask(d, elapsed)
    \/ \E q \in StoreQueries : TypeQuery(q)
    \/ ParseQuery
    \/ \E d \in StoreDirectives : SearchTasks(d)
    \/ \E text \in OrderTexts : SearchCommand(text)

StoreSpec == StoreInit /\ [][StoreNext]_vars

(***************************************************************************)
(* The store: tasks are created, updated, deleted and read                 *)
(***************************************************************************)
\* The position in the table of the row whose id is task_id (0 when there is
\* none): WHERE id = ?
RECURSIVE RowIndexFrom(_, _, _)
RowIndexFrom(table, task_id, n) ==
    IF n > Len(table) THEN 0
    ELSE IF table[n][F_id] = NumV(task_id) THEN n
    ELSE RowIndexFrom(table, task_id, n + 1)
RowIndex(table, task_id) == RowIndexFrom(table, task_id, 1)

\* The rows in the order of their ids, as the table keeps them.
RECURSIVE ByRowid(_)
ByRowid(table) ==
    IF table = <<>> THEN <<>>
    ELSE LET n == CHOOSE k \in 1..Len(table) :
                      \A j \in 1..Len(table) : table[k][F_id].num <= table[j][F_id].num
         IN  <<table[n]>> \o ByRowid(SubSeq(table, 1, n - 1) \o SubSeq(table, n + 1, Len(table)))

\* The columns declared NOT NULL (the primary key among them).
NotNullColumns == {F_id, F_title, F_created, F_updated}

\* What SET column = ? stores for a bound value: the value after the column's
\* affinity.
Stored(column, v) == Operand(column, v)

\* update_task(task_id, updates) at time t on the table: the table it leaves,
\* the task it returns (out) or the exception it raises (err). updates gets
\* the entry updated and a list of tags becomes its JSON text; UPDATE fails
\* on a name that is no column, a value that cannot be bound, a NULL in a NOT
\* NULL column and an id another row has; no row with the id raises; after
\* the commit the row is read again by task_id.
update_task(table, task_id, updates, t) ==
    LET timed == DictSet(updates, F_updated, NumV(t))
        given == [k \in 1..Len(timed) |->
                     IF timed[k].k = F_tags /\ IsList(timed[k].v)
                     THEN [k |-> F_tags, v |-> StrV(json_dumps(timed[k].v.list))]
                     ELSE timed[k]]
        n == RowIndex(table, task_id)
        raised == [tasks |-> table, out |-> <<>>, err |-> "CloudTaskException"]
    IN  IF \E k \in 1..Len(given) : ~IsColumn(given[k].k) \/ ~Bindable(given[k].v)
        THEN raised
        ELSE IF n = 0 THEN raised
        ELSE LET row == [c \in Columns |->
                            IF DictHas(given, c) THEN Stored(c, DictGet(given, c))
                            ELSE table[n][c]]
                 updated == ByRowid([table EXCEPT ![n] = row])
                 m == RowIndex(updated, task_id)
             IN  IF \/ \E c \in NotNullColumns : row[c] = NoneV
                    \/ \E j \in 1..Len(table) : j # n /\ table[j][F_id] = row[F_id]
                 THEN raised
                 ELSE IF m = 0
                 THEN [tasks |-> updated, out |-> <<>>, err |-> "TypeError"]
                 ELSE [tasks |-> updated, out |-> <<row_to_dict(updated[m])>>, err |-> ""]

\* A delete that returns True whether or not it deleted a row.
delete_task_unchecked(table, task_id) ==
    LET n == RowIndex(table, task_id)
    IN  [tasks |-> IF n = 0 THEN table
                   ELSE SubSeq(table, 1, n - 1) \o SubSeq(table, n + 1, Len(table)),
         out |-> <<>>, err |-> ""]

\* delete_task(task_id): the row is deleted and the call returns True, or
\* there is no such row and it raises.
delete_task(table, task_id) ==
    LET n == RowIndex(table, task_id)
    IN  IF n = 0 THEN [tasks |-> table, out |-> <<>>, err |-> "CloudTaskException"]
        ELSE [tasks |-> SubSeq(table, 1, n - 1) \o SubSeq(table, n + 1, Len(table)),
              out |-> <<>>, err |-> ""]

\* get_task(task_id): the task of the row, or None (no task in out).
get_task(table, task_id) ==
    LET n == RowIndex(table, task_id)
    IN  IF n = 0 THEN [tasks |-> table, out |-> <<>>, err |-> ""]
        ELSE [tasks |-> table, out |-> <<row_to_dict(table[n])>>, err |-> ""]

T_completed == <<"c","o","m","p","l","e","t","e","d">>
F_nope == <<"n","o","p","e">>

\* The ids the calls name.
TaskIds == 1..MaxId

\* The updates of the calls: the status and the priority (as update__tasks and
\* the test give them), the tags, no field at all, the id, the title set to
\* None, and a field the table does not have.
UpdateInputs ==
    { << [k |-> F_status, v |-> StrV(T_completed)], [k |-> F_priority, v |-> NumV(10)] >>,
      << [k |-> F_tags, v |-> ListV(<<T_y>>)] >>,
      <<>>,
      << [k |-> F_id, v |-> NumV(1)] >>,
      << [k |-> F_title, v |-> NoneV] >>,
      << [k |-> F_nope, v |-> NumV(1)] >> }

\* The tasks created: a plain one and one with a tag and an assignee.
BackendTasks ==
    { TaskData(5, <<>>),
      TaskData(8, << [k |-> F_tags, v |-> ListV(<<T_x>>)],
                     [k |-> F_assigned_to, v |-> StrV(T_alice)] >>) }

\* backend.update_task(task_id, updates) when elapsed has passed on the clock.
UpdateTask(task_id, updates, elapsed) ==
    /\ now + elapsed <= MaxClock
    /\ now' = now + elapsed
    /\ LET done == update_task(tasks, task_id, updates, now')
       IN  /\ tasks' = done.tasks
           /\ call' = [name |-> "update_task", id |-> task_id, updates |-> updates,
                     out |-> done.out, err |-> done.err]
    /\ UNCHANGED <<args, base, pc, ret, search_query, sql, params, seq, found, order, issued, deleted, file, clock, cache_got, cache_put, jobs, returned, max_retries, max_workers>>

\* backend.delete_task(task_id)
DeleteTask(task_id) ==
    /\ LET done == delete_task(tasks, task_id)
       IN  /\ tasks' = done.tasks
           /\ call' = [name |-> "delete_task", id |-> task_id, updates |-> <<>>,
                     out |-> done.out, err |-> done.err]
           /\ deleted' = IF done.err = "" THEN deleted \cup {task_id} ELSE deleted
    /\ UNCHANGED <<args, base, pc, ret, search_query, sql, params, seq, now, found, order, issued, file, clock, cache_got, cache_put, jobs, returned, max_retries, max_workers>>

\* backend.get_task(task_id)
GetTask(task_id) ==
    /\ LET done == get_task(tasks, task_id)
       IN  call' = [name |-> "get_task", id |-> task_id, updates |-> <<>>,
                  out |-> done.out, err |-> done.err]
    /\ UNCHANGED <<args, base, pc, ret, search_query, sql, params, tasks, seq, now, found, order, issued, deleted, file, clock, cache_got, cache_put, jobs, returned, max_retries, max_workers>>

\* The clock has moved on between two calls that read it.
BackendNext ==
    \/ \E d \in BackendTasks : CreateTask(d, 1)
    \/ \E task_id \in TaskIds, updates \in UpdateInputs : UpdateTask(task_id, updates, 1)
    \/ \E task_id \in TaskIds : DeleteTask(task_id)
    \/ \E task_id \in TaskIds : GetTask(task_id)

BackendSpec == StoreInit /\ [][BackendNext]_vars

(***************************************************************************)
(* Cache                                                                   *)
(***************************************************************************)
\* self.duration, and the last reading of the clock, in ticks.
Duration == 2
MaxTime == 4

NL == "\n"

\* json.dump(data, f, indent=2) for a dict whose keys are words and whose
\* values are words, whole numbers, None and lists of words.
JsonString(s) == <<"\"">> \o s \o <<"\"">>
JsonText(v) ==
    CASE DOMAIN v = {"str"} -> JsonString(v.str)
      [] DOMAIN v = {"int"} -> Decimal(v.int)
      [] DOMAIN v = {"none"} -> <<"n","u","l","l">>
      [] DOMAIN v = {"list"} ->
            IF v.list = <<>> THEN <<"[","]">>
            ELSE <<"[", NL>>
                 \o Join([n \in 1..Len(v.list) |-> <<SP,SP,SP,SP>> \o JsonString(v.list[n])],
                         <<",", NL>>)
                 \o <<NL, SP, SP, "]">>
json_dump(data) ==
    IF data = <<>> THEN <<"{","}">>
    ELSE <<"{", NL>>
         \o Join([n \in 1..Len(data) |->
                     <<SP,SP>> \o JsonString(data[n].k) \o <<":", SP>> \o JsonText(data[n].v)],
                 <<",", NL>>)
         \o <<NL, "}">>

\* json.load(f) reads the text back: white space is skipped between tokens.
SkipWs(s, i) == Span(s, i, {SP, NL})
StringAt(s, i) ==
    LET e == SpanNot(s, i + 1, {"\""})
    IN  [v |-> Slice(s, i + 1, e), next |-> e + 1]
RECURSIVE ItemsAt(_, _)
ItemsAt(s, i) ==
    LET j == SkipWs(s, i)
    IN  IF s[j] = "]" THEN [v |-> <<>>, next |-> j + 1]
        ELSE LET item == StringAt(s, j)
                 k == SkipWs(s, item.next)
             IN  IF s[k] = ","
                 THEN LET rest == ItemsAt(s, k + 1)
                      IN  [v |-> <<item.v>> \o rest.v, next |-> rest.next]
                 ELSE [v |-> <<item.v>>, next |-> k + 1]
ValueAt(s, i) ==
    IF s[i] = "\"" THEN [v |-> StrV(StringAt(s, i).v), next |-> StringAt(s, i).next]
    ELSE IF s[i] = "[" THEN [v |-> ListV(ItemsAt(s, i + 1).v), next |-> ItemsAt(s, i + 1).next]
    ELSE IF s[i] = "n" THEN [v |-> NoneV, next |-> i + 4]
    ELSE [v |-> IntOf(DigitsValue(Slice(s, i, Span(s, i, Digits)))),
          next |-> Span(s, i, Digits)]
RECURSIVE MembersAt(_, _)
MembersAt(s, i) ==
    LET j == SkipWs(s, i)
    IN  IF s[j] = "}" THEN <<>>
        ELSE LET key == StringAt(s, j)
                 colon == SkipWs(s, key.next)
                 val == ValueAt(s, SkipWs(s, colon + 1))
                 k == SkipWs(s, val.next)
             IN  <<[k |-> key.v, v |-> val.v]>>
                     \o (IF s[k] = "," THEN MembersAt(s, k + 1) ELSE <<>>)
json_load(text) ==
    LET i == SkipWs(text, 1)
    IN  IF i > Len(text) \/ text[i] # "{"
        THEN [err |-> "JSONDecodeError", data |-> <<>>]
        ELSE [err |-> "", data |-> MembersAt(text, i + 1)]

\* An is_valid that still holds when the age has reached the duration.
is_valid_atDuration(f, t) == f.exists /\ t - f.mtime <= Duration

\* is_valid(): the file exists and its age is less than the duration.
is_valid(f, t) == f.exists /\ t - f.mtime < Duration

\* get(): None (no data), or the data json reads from the file.
Cache_get(f, t) ==
    IF ~is_valid(f, t) THEN <<>>
    ELSE IF json_load(f.text).err # "" THEN <<>>
    ELSE <<json_load(f.text).data>>

\* set(data): the file is written now.
Cache_set(f, data, t) == [exists |-> TRUE, text |-> json_dump(data), mtime |-> t]

\* clear(): the file is removed.
Cache_clear(f) == NoFile

\* The data cached: that of the tests, one with a number, a list and a None,
\* one with an empty list, and the empty dict.
CacheData ==
    { << [k |-> <<"k","e","y">>, v |-> StrV(<<"v","a","l","u","e">>)] >>,
      << [k |-> <<"n">>, v |-> IntOf(15)],
         [k |-> F_tags, v |-> ListV(<<T_x, T_y>>)],
         [k |-> <<"k">>, v |-> NoneV] >>,
      << [k |-> F_tags, v |-> ListV(<<>>)] >>,
      <<>> }

\* The variables of the other parts, which the cache leaves alone.
others ==
    <<args, base, pc, ret, search_query, sql, params, tasks, seq, now, found, order,
      call, issued, deleted>>

\* The cache file at the start: none, or an empty one (as a temporary file
\* is made).
CacheInit ==
    /\ args = <<>>
    /\ base = <<>>
    /\ pc = "input"
    /\ ret = NoRet
    /\ search_query = <<>>
    /\ sql = <<>>
    /\ params = <<>>
    /\ tasks = <<>>
    /\ seq = 0
    /\ now = 0
    /\ found = NoFound
    /\ order = <<>>
    /\ call = NoCall
    /\ issued = {}
    /\ deleted = {}
    /\ file \in {NoFile, [exists |-> TRUE, text |-> <<>>, mtime |-> 0]}
    /\ clock = 0
    /\ cache_got = NoGot
    /\ cache_put = NeverSet
    /\ jobs = <<>>
    /\ returned = NoReturn
    /\ max_retries = 3
    /\ max_workers = 8

\* cache.set(data)
CacheSet(data) ==
    /\ file' = Cache_set(file, data, clock)
    /\ cache_put' = [state |-> "set", data |-> data, at |-> clock]
    /\ cache_got' = NoGot
    /\ UNCHANGED <<clock, others, jobs, returned, max_retries, max_workers>>

\* cache.get()
CacheGet ==
    /\ cache_got' = [fresh |-> TRUE, value |-> Cache_get(file, clock)]
    /\ UNCHANGED <<file, clock, cache_put, others, jobs, returned, max_retries, max_workers>>

\* cache.clear()
CacheClear ==
    /\ file' = Cache_clear(file)
    /\ cache_put' = [state |-> "cleared", data |-> <<>>, at |-> clock]
    /\ cache_got' = NoGot
    /\ UNCHANGED <<clock, others, jobs, returned, max_retries, max_workers>>

\* Time passes.
Tick ==
    /\ clock < MaxTime
    /\ clock' = clock + 1
    /\ cache_got' = NoGot
    /\ UNCHANGED <<file, cache_put, others, jobs, returned, max_retries, max_workers>>

CacheNext ==
    \/ \E data \in CacheData : CacheSet(data)
    \/ CacheGet
    \/ CacheClear
    \/ Tick

CacheSpec == CacheInit /\ [][CacheNext]_vars

(***************************************************************************)
(* execute_concurrent                                                      *)
(***************************************************************************)
\* The number of items, and the largest max_retries.
NItems == 2
MaxRetries == 3

\* What a call of func does: it raises, returns None, or returns a value.
Outcomes == {"raises", "returns None", "returns a value"}

\* The value func returns for item i, when it returns one (as the tests'
\* flaky_function: x * 2).
FuncValue(i) == IntOf(i * 2)

Queued ==
    [state |-> "queued", attempt |-> 0, calls |-> 0, raised |-> 0, succeeded |-> FALSE,
     result |-> NoneV]

\* The variables of the other parts, which execute_concurrent leaves alone.
sequential ==
    <<args, base, pc, ret, search_query, sql, params, tasks, seq, now, found, order,
      call, issued, deleted, file, clock, cache_got, cache_put>>

\* execute_concurrent(func, items, max_workers, max_retries) is called.
ConcurrentInit ==
    /\ args = <<>>
    /\ base = <<>>
    /\ pc = "input"
    /\ ret = NoRet
    /\ search_query = <<>>
    /\ sql = <<>>
    /\ params = <<>>
    /\ tasks = <<>>
    /\ seq = 0
    /\ now = 0
    /\ found = NoFound
    /\ order = <<>>
    /\ call = NoCall
    /\ issued = {}
    /\ deleted = {}
    /\ file = NoFile
    /\ clock = 0
    /\ cache_got = NoGot
    /\ cache_put = NeverSet
    /\ jobs = [i \in 1..NItems |-> Queued]
    /\ returned = NoReturn
    /\ max_retries \in 0..MaxRetries
    /\ max_workers \in 1..NItems

\* The items whose worker is running on a thread of the pool.
Busy == {i \in 1..Len(jobs) : jobs[i].state \in {"ready", "sleeping"}}

\* A free thread of the pool takes the next item of executor.map and enters
\* worker_with_retry: the loop for attempt in range(max_retries) begins, or,
\* when the range is empty, the worker returns None.
StartWorker(i) ==
    /\ jobs[i].state = "queued"
    /\ \A j \in 1..(i - 1) : jobs[j].state # "queued"
    /\ Cardinality(Busy) < max_workers
    /\ jobs' = [jobs EXCEPT ![i].state = IF max_retries = 0 THEN "done" ELSE "ready"]
    /\ UNCHANGED <<returned, max_retries, max_workers, sequential>>

\* One pass of the loop for item i: func is called; when it returns, the
\* worker returns its result; when it raises, the worker returns None at the
\* last attempt and sleeps before the next one otherwise.
CallFunc(i, outcome) ==
    /\ jobs[i].state = "ready"
    /\ jobs' = [jobs EXCEPT ![i] =
          IF outcome = "raises"
          THEN [@ EXCEPT !.calls = @ + 1, !.raised = @ + 1,
                         !.state = IF jobs[i].attempt = max_retries - 1
                                   THEN "done" ELSE "sleeping"]
          ELSE [@ EXCEPT !.calls = @ + 1, !.succeeded = TRUE, !.state = "done",
                         !.result = IF outcome = "returns None" THEN NoneV
                                    ELSE FuncValue(i)]]
    /\ UNCHANGED <<returned, max_retries, max_workers, sequential>>

\* time.sleep(backoff_time) is over: the next attempt.
Wake(i) ==
    /\ jobs[i].state = "sleeping"
    /\ jobs' = [jobs EXCEPT ![i].state = "ready", ![i].attempt = @ + 1]
    /\ UNCHANGED <<returned, max_retries, max_workers, sequential>>

\* [r for r in results if r is not None], results in the order of the items.
RECURSIVE NotNone(_)
NotNone(results) ==
    IF results = <<>> THEN <<>>
    ELSE (IF Head(results) = NoneV THEN <<>> ELSE <<Head(results)>>) \o NotNone(Tail(results))

\* Every worker has returned: execute_concurrent returns the list.
ReturnResults ==
    /\ ~returned.done
    /\ \A i \in 1..Len(jobs) : jobs[i].state = "done"
    /\ returned' = [done |-> TRUE,
                    list |-> NotNone([i \in 1..Len(jobs) |-> jobs[i].result])]
    /\ UNCHANGED <<jobs, max_retries, max_workers, sequential>>

ConcurrentNext ==
    \/ \E i \in 1..NItems : StartWorker(i)
    \/ \E i \in 1..NItems, outcome \in Outcomes : CallFunc(i, outcome)
    \/ \E i \in 1..NItems : Wake(i)
    \/ ReturnResults

ConcurrentSpec == ConcurrentInit /\ [][ConcurrentNext]_vars

(***************************************************************************)
(* The call in a state, as the claims below read it                        *)
(***************************************************************************)
\* The call of parse_query on args has just returned or raised (a search that
\* follows leaves args and ret as they are).
Called == pc \in {"parsed", "failed"}

\* The call returned a filter.
Returned == Called /\ ret.err = ""

\* query_str after the join and the strip, and its matches.
QueryText == Strip(JoinSpace(args))
Matches == findall(QueryText, 1)

\* The number of characters of the query text that lie in some match.
RECURSIVE ConsumedLen(_)
ConsumedLen(matches) ==
    IF matches = <<>> THEN 0
    ELSE LET m == Head(matches)
         IN  Len(m.field) + Len(m.op) + Len(m.ws) + Len(m.value) + Len(m.trail)
                + ConsumedLen(Tail(matches))

\* A clause (a match) as parse_query reads it: the field after aliasing, the
\* operator text, the operator kind, the trimmed value and the value stored.
ClauseField(m) == ResolveField(m.field, TASK_ALIASES)
ClauseOp(m) == Strip(m.op)
ClauseKind(m) == op_names(ClauseOp(m))
ClauseValue(m) == StripChars(m.value, {",", "[", "]", "\""})
ClauseStored(m) ==
    ShapeValue(ClauseField(m), ClauseKind(m), ClauseValue(m), SIZE_MULTIPLIERS)
ClausePair(m) == <<ClauseField(m), ClauseKind(m)>>

HasWildcardValue(m) == IsWildcard(ClauseValue(m))
IsEqWildcard(m) == HasWildcardValue(m) /\ ClauseKind(m) = "eq"

\* The (field, operator) pairs of a filter, and the value under a pair.
FilterPairs(f) ==
    UNION { { <<fld, kind>> : kind \in DictKeys(DictGet(f, fld)) } : fld \in DictKeys(f) }
FilterValue(f, pair) == DictGet(DictGet(f, pair[1]), pair[2])

\* Every key occurs once, in the filter and under each of its fields.
UniqueKeys(f) ==
    /\ Cardinality(DictKeys(f)) = Len(f)
    /\ \A n \in 1..Len(f) : Cardinality(DictKeys(f[n].v)) = Len(f[n].v)

\* The clauses of the list ms that name the pair, by position.
ClausesWith(ms, pair) == {n \in 1..Len(ms) : ClausePair(ms[n]) = pair}
LastOf(S) == CHOOSE n \in S : \A m \in S : m <= n

\* The state of the call after its first k clauses.
AfterClauses(k) ==
    ProcessClauses(StartState(ret.before), SubSeq(Matches, 1, k),
                   TASK_FIELDS, TASK_ALIASES, SIZE_MULTIPLIERS)

(***************************************************************************)
(* C1                                                                      *)
(***************************************************************************)
\* C1: whenever the matches do not consume the whole (stripped) query text,
\* that is, rejoining their groups does not give the text back, or some
\* character lies in no match, the call raises and returns no filter.
C1_UnconsumedTextIsRejected ==
    (Called /\ (reconstructed(Matches) # QueryText \/ ConsumedLen(Matches) < Len(QueryText)))
        => (pc = "failed" /\ ret.err # "")

\* A query with a clause and text outside every clause was rejected for it.
C1_Witness ==
    /\ pc = "failed"
    /\ ret.err = "Failed to parse query"
    /\ Matches # <<>>
    /\ ConsumedLen(Matches) < Len(QueryText)

(***************************************************************************)
(* C2                                                                      *)
(***************************************************************************)
\* C2: for a query without wildcard clauses that parses, the filter holds one
\* value per (field, operator) pair; its pairs are those of the base filter and
\* those the clauses name (fields after aliasing, operators by kind); a pair
\* that clauses name holds the value of the last such clause, and every other
\* pair holds what the base filter held.
C2_LastClauseWinsPerPair ==
    (Returned /\ \A n \in 1..Len(Matches) : ~HasWildcardValue(Matches[n]))
        => /\ UniqueKeys(ret.result)
           /\ FilterPairs(ret.result) =
                FilterPairs(ret.before) \cup {ClausePair(Matches[n]) : n \in 1..Len(Matches)}
           /\ \A pair \in FilterPairs(ret.result) :
                FilterValue(ret.result, pair) =
                    IF ClausesWith(Matches, pair) # {}
                    THEN ClauseStored(Matches[LastOf(ClausesWith(Matches, pair))])
                    ELSE FilterValue(ret.before, pair)

\* A parsed query that names one pair twice with different values, on a field
\* for which the base filter holds other operators.
C2_Witness ==
    /\ Returned
    /\ \A n \in 1..Len(Matches) : ~HasWildcardValue(Matches[n])
    /\ \E i, j \in 1..Len(Matches) :
          /\ i < j
          /\ ClausePair(Matches[i]) = ClausePair(Matches[j])
          /\ ClauseStored(Matches[i]) # ClauseStored(Matches[j])
          /\ \E pair \in FilterPairs(ret.before) :
                pair[1] = ClauseField(Matches[i]) /\ pair[2] # ClauseKind(Matches[i])
    /\ \E i, j \in 1..Len(Matches) :
          /\ ClauseField(Matches[i]) = ClauseField(Matches[j])
          /\ ClauseKind(Matches[i]) # ClauseKind(Matches[j])

(***************************************************************************)
(* C3                                                                      *)
(***************************************************************************)
\* C3: a clause with an equality spelling and the value ?, * or any leaves the
\* filter without a key for its field right after it, whatever the base filter
\* and the earlier clauses held for the field, changes nothing else and raises
\* nothing; so in the filter returned, a field whose clauses include such a
\* wildcard holds only what the clauses after the last wildcard gave it.
C3_WildcardRemovesField ==
    (Called /\ reconstructed(Matches) = QueryText)
        => /\ \A k \in 1..Len(Matches) :
                (IsEqWildcard(Matches[k]) /\ AfterClauses(k - 1).err = "")
                    => /\ AfterClauses(k).err = ""
                       /\ ClauseField(Matches[k]) \notin DictKeys(AfterClauses(k).result)
                       /\ FilterPairs(AfterClauses(k).result) =
                            {pair \in FilterPairs(AfterClauses(k - 1).result) :
                                pair[1] # ClauseField(Matches[k])}
                       /\ \A pair \in FilterPairs(AfterClauses(k).result) :
                            FilterValue(AfterClauses(k).result, pair) =
                                FilterValue(AfterClauses(k - 1).result, pair)
           /\ Returned =>
                \A k \in 1..Len(Matches) :
                    IsEqWildcard(Matches[k]) =>
                        \A pair \in FilterPairs(ret.result) :
                            pair[1] = ClauseField(Matches[k]) =>
                                \E n \in ClausesWith(Matches, pair) : n > k

\* A parsed query whose wildcard clause removed a field that the base filter
\* and an earlier clause of the query constrained, under other operators too.
C3_Witness ==
    /\ Returned
    /\ \E k \in 2..Len(Matches) :
          /\ IsEqWildcard(Matches[k])
          /\ ClauseField(Matches[k]) \in DictKeys(ret.before)
          /\ \E pair \in FilterPairs(AfterClauses(k - 1).result) :
                pair[1] = ClauseField(Matches[k]) /\ pair[2] # "eq"
          /\ \E n \in 1..(k - 1) : ClauseField(Matches[n]) = ClauseField(Matches[k])
          /\ ClauseField(Matches[k]) \notin DictKeys(ret.result)

(***************************************************************************)
(* C4                                                                      *)
(***************************************************************************)
\* C4: after a call of parse_query, whether it returned or raised, the base
\* filter of the caller equals what it was before the call.
C4_BaseFilterUnchanged == Called => base = ret.before

(***************************************************************************)
(* C5                                                                      *)
(***************************************************************************)
\* A text of the characters an injected value would carry.
HostileText == <<"'", ";", "-", "-">>

\* The scalar values put in place of the scalars of a filter.
OtherScalars == {StrV(HostileText), StrV(<<"1","=","1">>), NoneV, BoolV(TRUE), NumV(7)}

\* The query dict q with every scalar value replaced by v and every list
\* element by text: the fields, the operators, the list lengths and what the
\* filter holds under order and limit stay.
Revalued(q, v, text) ==
    [n \in 1..Len(q) |->
        IF IsDict(q[n].v) /\ q[n].k \notin {K_order, K_limit}
        THEN [k |-> q[n].k,
              v |-> DictOf([m \in 1..Len(q[n].v.dict) |->
                        [k |-> q[n].v.dict[m].k,
                         v |-> IF IsList(q[n].v.dict[m].v)
                               THEN ListV([e \in 1..Len(q[n].v.dict[m].v.list) |-> text])
                               ELSE v]])]
        ELSE q[n]]

\* The values of the conditions of a query dict.
QueryValues(q) ==
    UNION { {q[n].v.dict[m].v : m \in 1..Len(q[n].v.dict)} :
                n \in {i \in 1..Len(q) : IsDict(q[i].v)} }

\* C5: the SQL text search_tasks builds is the same for any two filters that
\* differ only in their scalar values and list element contents; the values
\* are in the parameter list only: of the other filter, every parameter before
\* the limit is its scalar, its list element or the LIKE pattern of the element.
C5_ValuesNeverReachSqlText ==
    pc = "searched" =>
        \A v \in OtherScalars :
            LET other == search_tasks(Revalued(search_query, v, HostileText))
            IN  /\ other.err = ""
                /\ other.sql = sql
                /\ Len(other.params) = Len(params)
                /\ other.params[Len(params)] = params[Len(params)]
                /\ \A n \in 1..(Len(params) - 1) :
                      other.params[n] \in
                        {v, StrV(HostileText),
                         StrV(<<"%", "\"">> \o HostileText \o <<"\"", "%">>)}

\* A statement built from a filter with a str scalar and a list of two or more
\* elements, with the directives of the command line.
C5_Witness ==
    /\ pc = "searched"
    /\ DictHas(search_query, K_limit)
    /\ \E v \in QueryValues(search_query) : IsStr(v)
    /\ \E v \in QueryValues(search_query) : IsList(v) /\ Len(v.list) >= 2

(***************************************************************************)
(* C6                                                                      *)
(***************************************************************************)
\* The number of chunks of the statement that are the text c.
CountChunk(s, c) == Cardinality({n \in 1..Len(s) : s[n] = c})

\* The query has an In condition with a list on tags.
HasTagsIn(q) ==
    /\ DictHas(q, F_tags)
    /\ IsDict(DictGet(q, F_tags))
    /\ DictHas(DictGet(q, F_tags).dict, "in")
    /\ IsList(DictGet(DictGet(q, F_tags).dict, "in"))

TagsIn(q) == DictGet(DictGet(q, F_tags).dict, "in").list

\* The conditions of a query dict that make one predicate each: all but In on
\* tags, of the fields that are no directive.
OtherConditions(q) ==
    UNION { { <<n, m>> : m \in {i \in 1..Len(q[n].v.dict) :
                                  ~(q[n].k = F_tags /\ q[n].v.dict[i].k = "in")} } :
            n \in {i \in 1..Len(q) : IsDict(q[i].v) /\ q[i].k \notin {K_order, K_limit}} }

IsLikePattern(v) ==
    IsStr(v) /\ Len(v.str) >= 2 /\ v.str[1] = "%" /\ v.str[2] = "\""

\* C6: for In on tags with a list of n elements the statement has exactly n
\* predicates  tags LIKE ? , their parameters are the patterns %"element"% in
\* list order, one each, and all the predicates of the statement are joined
\* with AND and nothing else.
C6_TagsInIsOneLikePerElement ==
    (pc = "searched" /\ HasTagsIn(search_query)) =>
        LET n == Len(TagsIn(search_query))
            preds == n + Cardinality(OtherConditions(search_query))
        IN  /\ CountChunk(sql, "tags LIKE ?") = n
            /\ SelectSeq(params, IsLikePattern) =
                 [i \in 1..n |-> StrV(<<"%", "\"">> \o TagsIn(search_query)[i] \o <<"\"", "%">>)]
            /\ CountChunk(sql, " AND ") = IF preds = 0 THEN 0 ELSE preds - 1
            /\ CountChunk(sql, "1=1") = IF preds = 0 THEN 1 ELSE 0
            /\ CountChunk(sql, " OR ") = 0

\* A statement for In on tags with two elements beside other predicates.
C6_Witness ==
    /\ pc = "searched"
    /\ HasTagsIn(search_query)
    /\ Len(TagsIn(search_query)) = 2
    /\ TagsIn(search_query)[1] # TagsIn(search_query)[2]
    /\ OtherConditions(search_query) # {}

(***************************************************************************)
(* C7                                                                      *)
(***************************************************************************)
\* C7: a query with a clause whose operator text is none of the spellings (no
\* operator at all, or a run of = > < ! that is no spelling) raises; no filter
\* is returned for it.
C7_UnknownOperatorIsRejected ==
    (Called /\ \E n \in 1..Len(Matches) : ClauseOp(Matches[n]) \notin Spellings)
        => (pc = "failed" /\ ret.err # "")

\* A fully consumed query was rejected for a run of operator characters that
\* is no spelling.
C7_Witness ==
    /\ pc = "failed"
    /\ ret.err = "Unknown operator"
    /\ ConsumedLen(Matches) = Len(QueryText)
    /\ \E n \in 1..Len(Matches) :
          /\ ClauseOp(Matches[n]) # <<>>
          /\ \A i \in 1..Len(ClauseOp(Matches[n])) : ClauseOp(Matches[n])[i] \in OpChars
          /\ ClauseOp(Matches[n]) \notin Spellings

(***************************************************************************)
(* C8                                                                      *)
(***************************************************************************)
\* The spellings of equality.
EqSpellings == { <<"=","=">>, <<"=">>, <<"e","q">> }

\* C8: a query with a clause whose value is ?, * or any and whose operator is
\* no spelling of equality raises: it removes and adds no constraint.
C8_WildcardNeedsEquality ==
    (Called /\ \E n \in 1..Len(Matches) :
                  HasWildcardValue(Matches[n]) /\ ClauseOp(Matches[n]) \notin EqSpellings)
        => (pc = "failed" /\ ret.err # "")

\* A query was rejected for a wildcard under a list operator on a field the
\* base filter constrains.
C8_Witness ==
    /\ pc = "failed"
    /\ ret.err = "Wildcard only valid with '=' operator"
    /\ \E n \in 1..Len(Matches) :
          /\ HasWildcardValue(Matches[n])
          /\ ClauseKind(Matches[n]) = "in"
          /\ ClauseField(Matches[n]) \in DictKeys(ret.before)

(***************************************************************************)
(* C9                                                                      *)
(***************************************************************************)
\* The orders in which the arguments typed can be given.
ArgOrders ==
    {p \in [1..Len(args) -> 1..Len(args)] : \A i, j \in 1..Len(args) : p[i] = p[j] => i = j}

Reordered(p) == [n \in 1..Len(args) |-> args[p[n]]]

MatchesOf(list) == findall(Strip(JoinSpace(list)), 1)

\* A clause as it is written: field, operator text and value text.
ClauseText(m) == <<m.field, ClauseOp(m), m.value>>

\* The (field, operator) pairs of the clauses are pairwise distinct.
DistinctPairs(ms) ==
    \A i, j \in 1..Len(ms) : ClausePair(ms[i]) = ClausePair(ms[j]) => i = j

\* The clauses of ms2 are those of ms1 in some order (clauses with pairwise
\* distinct pairs are pairwise distinct).
SameClauses(ms1, ms2) ==
    /\ Len(ms1) = Len(ms2)
    /\ {ClauseText(ms1[n]) : n \in 1..Len(ms1)} = {ClauseText(ms2[n]) : n \in 1..Len(ms2)}

\* What parse_query gives for a list of arguments on the base filter of the
\* call of this state: the filter, as Python compares dicts, or the failure.
OutcomeOf(list) ==
    LET o == parse_query(list, ret.before, TASK_FIELDS, TASK_ALIASES, SIZE_MULTIPLIERS)
    IN  IF o.err # "" THEN <<"raises">> ELSE <<"returns", FilterMap(o.result)>>

\* C9 as claimed: two queries whose clauses are permutations of each other and
\* have pairwise distinct (field, operator) pairs parse to equal filters.
C9_ClauseOrderIsIrrelevant ==
    (Called /\ DistinctPairs(Matches)) =>
        LET typed == OutcomeOf(args)
        IN  \A p \in ArgOrders :
                SameClauses(Matches, MatchesOf(Reordered(p)))
                    => OutcomeOf(Reordered(p)) = typed

\* No clause with a wildcard value (?, * or any) names the field of another
\* clause.
WildcardsAlone(ms) ==
    \A i, j \in 1..Len(ms) :
        (HasWildcardValue(ms[i]) /\ ClauseField(ms[i]) = ClauseField(ms[j])) => i = j

\* C9 as amended: two queries whose clauses are permutations of each other and
\* have pairwise distinct (field, operator) pairs, and in which no clause with
\* a wildcard value names the field of another clause, parse to equal filters,
\* or both raise.
C9_ClauseOrderIsIrrelevantForLoneWildcards ==
    (Called /\ DistinctPairs(Matches) /\ WildcardsAlone(Matches)) =>
        LET typed == OutcomeOf(args)
        IN  /\ typed = IF Returned THEN <<"returns", FilterMap(ret.result)>>
                       ELSE <<"raises">>
            /\ \A p \in ArgOrders :
                  SameClauses(Matches, MatchesOf(Reordered(p)))
                      => OutcomeOf(Reordered(p)) = typed

\* A parsed query of three clauses, two of them on one field and one a
\* wildcard on a field of the base filter, that has another order of the same
\* clauses.
C9_Witness ==
    /\ Returned
    /\ Len(Matches) = 3
    /\ DistinctPairs(Matches)
    /\ WildcardsAlone(Matches)
    /\ \E n \in 1..Len(Matches) :
          HasWildcardValue(Matches[n]) /\ ClauseField(Matches[n]) \in DictKeys(ret.before)
    /\ \E i, j \in 1..Len(Matches) :
          i # j /\ ClauseField(Matches[i]) = ClauseField(Matches[j])
    /\ \E p \in ArgOrders :
          /\ Reordered(p) # args
          /\ SameClauses(Matches, MatchesOf(Reordered(p)))

(***************************************************************************)
(* C10                                                                     *)
(***************************************************************************)
\* The operator kind the specification lists each spelling under.
ListedKind(s) ==
    CASE s \in { <<"=","=">>, <<"=">>, <<"e","q">> } -> "eq"
      [] s \in { <<"!","=">>, <<"n","e","q">>, <<"n","o","t","e","q">>,
                 <<"n","o","t"," ","e","q">> } -> "neq"
      [] s \in { <<">">>, <<"g","t">> } -> "gt"
      [] s \in { <<">","=">>, <<"g","t","e">> } -> "gte"
      [] s \in { <<"<">>, <<"l","t">> } -> "lt"
      [] s \in { <<"<","=">>, <<"l","t","e">> } -> "lte"
      [] s \in { <<"i","n">> } -> "in"
      [] s \in { <<"n","o","t","i","n">>, <<"n","o","t"," ","i","n">>,
                 <<"n","i","n">> } -> "notin"

\* C10: for each of the nineteen spellings s, the query  a s x  parses to one
\* clause and adds to the base filter exactly one entry, for a under the kind
\* s is listed with: the text x, or the list of x for In and NotIn.
C10_EverySpellingHasItsKind ==
    /\ Cardinality(Spellings) = 19
    /\ \A s \in Spellings :
          (Called /\ args = << Spaced(F_a, s, T_x) >>) =>
              /\ Returned
              /\ Len(Matches) = 1
              /\ ClauseOp(Matches[1]) = s
              /\ FilterPairs(ret.result) =
                    FilterPairs(ret.before) \cup { <<F_a, ListedKind(s)>> }
              /\ FilterValue(ret.result, <<F_a, ListedKind(s)>>) =
                    IF ListedKind(s) \in {"in", "notin"} THEN ListV(<<T_x>>) ELSE StrV(T_x)
              /\ \A pair \in FilterPairs(ret.before) \ { <<F_a, ListedKind(s)>> } :
                    FilterValue(ret.result, pair) = FilterValue(ret.before, pair)

\* The query  a not in x  parsed on an empty base filter.
C10_Witness ==
    /\ Returned
    /\ ret.before = <<>>
    /\ args = << Spaced(F_a, <<"n","o","t"," ","i","n">>, T_x) >>
    /\ FilterMap(ret.result) = (F_a :> ("notin" :> ListV(<<T_x>>)))

(***************************************************************************)
(* C11                                                                     *)
(***************************************************************************)
\* The recognized-field sets, alias tables and multiplier tables of a call.
FieldSets == {TASK_FIELDS, {F_a}}
AliasTables == {<<>>, TASK_ALIASES}
MultiplierTables == {<<>>, SIZE_MULTIPLIERS}

\* What a call gives its caller: the filter, in its order, or the error.
ResultOf(o) == IF o.err # "" THEN <<"raises", o.err>> ELSE <<"returns", o.result>>

\* C11: with any recognized-field set, alias table and multiplier table, the
\* call on the query and the base filter of this state returns the filter, or
\* raises the error, that it gives with no recognized-field set; so does the
\* call of this state, whatever it warned.
C11_UnrecognizedFieldChangesNothing ==
    Called =>
        /\ \A al \in AliasTables, mu \in MultiplierTables :
              LET unchecked == ResultOf(parse_query(args, ret.before, {}, al, mu))
              IN  \A fs \in FieldSets :
                      ResultOf(parse_query(args, ret.before, fs, al, mu)) = unchecked
        /\ ResultOf(ret)
              = ResultOf(parse_query(args, ret.before, {}, TASK_ALIASES, SIZE_MULTIPLIERS))

\* A call that warned of an unrecognized field and returned a constraint on it.
C11_Witness ==
    /\ Returned
    /\ ret.warnings # <<>>
    /\ \E n \in 1..Len(ret.warnings) :
          /\ ret.warnings[n] \notin TASK_FIELDS
          /\ ret.warnings[n] \in DictKeys(ret.result)
          /\ ret.warnings[n] \notin DictKeys(ret.before)

(***************************************************************************)
(* C12                                                                     *)
(***************************************************************************)
\* The clauses of ms that name the pair and store a value (no wildcard).
StoringClauses(ms, pair) == {n \in ClausesWith(ms, pair) : ~HasWildcardValue(ms[n])}

\* The scalar text of a clause, and whether it is a number written in digits.
ClauseScalar(m) == ReplaceUnderscore(ClauseValue(m))
IsDigitText(s) == s # <<>> /\ \A n \in 1..Len(s) : s[n] \in Digits

\* The call of this state with no multiplier table.
WithoutMultipliers == parse_query(args, ret.before, TASK_FIELDS, TASK_ALIASES, <<>>)

\* C12: the call raises with the multiplier table exactly when it raises
\* without one; when it returns, the filter has the pairs it has without one,
\* and the value a clause stored is the number n*m when the field has the
\* multiplier m, the operator is no list operator and the value is the number
\* n, and otherwise is exactly the value stored without a multiplier table.
C12_MultiplierScalesNumbers ==
    Called =>
        /\ ret.err = WithoutMultipliers.err
        /\ Returned =>
              /\ FilterPairs(ret.result) = FilterPairs(WithoutMultipliers.result)
              /\ \A pair \in FilterPairs(ret.result) :
                    LET k == LastOf(StoringClauses(Matches, pair))
                    IN  FilterValue(ret.result, pair) =
                          IF /\ StoringClauses(Matches, pair) # {}
                             /\ DictHas(SIZE_MULTIPLIERS, pair[1])
                             /\ pair[2] \notin {"in", "notin"}
                             /\ IsDigitText(ClauseScalar(Matches[k]))
                          THEN NumV(DigitsValue(ClauseScalar(Matches[k]))
                                        * DictGet(SIZE_MULTIPLIERS, pair[1]))
                          ELSE FilterValue(WithoutMultipliers.result, pair)

\* size >= 10 parsed with the multiplier 1024: the number 10240 is stored.
C12_Witness ==
    /\ Returned
    /\ args = << <<"s","i","z","e",">","=","1","0">> >>
    /\ <<F_size, "gte">> \in FilterPairs(ret.result)
    /\ FilterValue(ret.result, <<F_size, "gte">>) = NumV(10240)
    /\ FilterValue(WithoutMultipliers.result, <<F_size, "gte">>) = StrV(<<"1","0">>)

(***************************************************************************)
(* C13                                                                     *)
(***************************************************************************)
\* The six literals and the value each is stored as.
LiteralValue(s) ==
    CASE s \in { <<"t","r","u","e">>, <<"T","r","u","e">> } -> BoolV(TRUE)
      [] s \in { <<"f","a","l","s","e">>, <<"F","a","l","s","e">> } -> BoolV(FALSE)
      [] s \in { <<"N","o","n","e">>, <<"n","u","l","l">> } -> NoneV

IsLiteral(s) ==
    s \in { <<"t","r","u","e">>, <<"T","r","u","e">>, <<"f","a","l","s","e">>,
            <<"F","a","l","s","e">>, <<"N","o","n","e">>, <<"n","u","l","l">> }

\* C13: in the filter returned, the value a clause stored under a scalar
\* operator is the boolean or the null of its literal when its text is one of
\* the six literals, and otherwise the text itself as a string (the number of
\* C12 on a field with a multiplier); under a list operator it is a list of
\* the texts of its elements, none of them coerced.
C13_CoercionOfSixLiterals ==
    Returned =>
        \A pair \in FilterPairs(ret.result) :
            StoringClauses(Matches, pair) # {} =>
                LET m == Matches[LastOf(StoringClauses(Matches, pair))]
                    stored == FilterValue(ret.result, pair)
                IN  IF pair[2] \in {"in", "notin"}
                    THEN /\ IsList(stored)
                         /\ stored = ListV(ListElements(ClauseValue(m)))
                    ELSE IF IsLiteral(ClauseScalar(m))
                    THEN stored = LiteralValue(ClauseScalar(m))
                    ELSE IF DictHas(SIZE_MULTIPLIERS, pair[1]) /\ IsDigitText(ClauseScalar(m))
                    THEN DOMAIN stored = {"num"}
                    ELSE stored = StrV(ClauseScalar(m))

\* a=null a>5 parsed: null under eq, the string 5 under gt.
C13_Witness ==
    /\ Returned
    /\ args = << <<"a","=","n","u","l","l">>, <<"a",">","5">> >>
    /\ FilterValue(ret.result, <<F_a, "eq">>) = NoneV
    /\ FilterValue(ret.result, <<F_a, "gt">>) = StrV(<<"5">>)

(***************************************************************************)
(* C14                                                                     *)
(***************************************************************************)
\* A text without the spaces around it, and with a space for every underscore.
NonBlank(s) == \E n \in 1..Len(s) : s[n] # SP
Trimmed(s) ==
    LET inked == {n \in 1..Len(s) : s[n] # SP}
        first == CHOOSE n \in inked : \A m \in inked : n <= m
        last == CHOOSE n \in inked : \A m \in inked : m <= n
    IN  IF inked = {} THEN <<>> ELSE SubSeq(s, first, last)
Underscored(s) == [n \in 1..Len(s) |-> IF s[n] = "_" THEN SP ELSE s[n]]

\* The list a value is stored as under In and NotIn: its comma-separated
\* elements in their order, the blank ones left out, each trimmed and then
\* with spaces for its underscores.
ExpectedList(value) ==
    LET kept == SelectSeq(SplitComma(value), NonBlank)
    IN  [n \in 1..Len(kept) |-> Underscored(Trimmed(kept[n]))]

\* C14: in the filter returned, the value a clause stored under In or NotIn is
\* the list of the elements of its value as above; under every other operator
\* a string stored is the value with spaces for its underscores, and what is
\* stored is such a string unless the value is a literal of the coercion or a
\* number on a field with a multiplier.
C14_ListAndScalarShaping ==
    Returned =>
        \A pair \in FilterPairs(ret.result) :
            StoringClauses(Matches, pair) # {} =>
                LET m == Matches[LastOf(StoringClauses(Matches, pair))]
                    stored == FilterValue(ret.result, pair)
                IN  IF pair[2] \in {"in", "notin"}
                    THEN stored = ListV(ExpectedList(ClauseValue(m)))
                    ELSE /\ IsStr(stored) => stored.str = Underscored(ClauseValue(m))
                         /\ IsStr(stored) \/ IsLiteral(Underscored(ClauseValue(m)))
                                \/ (DictHas(SIZE_MULTIPLIERS, pair[1])
                                        /\ IsDigitText(Underscored(ClauseValue(m))))

\* a in [x,,y] parsed: the list of x and y, in this order.
C14_Witness ==
    /\ Returned
    /\ args = << <<"a"," ","i","n"," ","[","x",",",",","y","]">> >>
    /\ FilterValue(ret.result, <<F_a, "in">>) = ListV(<<T_x, T_y>>)

(***************************************************************************)
(* C15                                                                     *)
(***************************************************************************)
\* Alias tables: the one of the task commands, one whose canonical name is
\* written in clauses too, and one whose canonical name is itself an alias.
AliasAB == << [k |-> F_a, v |-> F_b] >>
ChainAliases == << [k |-> F_a, v |-> F_b], [k |-> F_b, v |-> F_prio] >>
AliasCases == {TASK_ALIASES, AliasAB, ChainAliases}

\* The canonical name a table gives the field written in a clause: one look-up.
Canonical(table, field) ==
    IF \E n \in 1..Len(table) : table[n].k = field
    THEN table[CHOOSE n \in 1..Len(table) : table[n].k = field].v
    ELSE field

\* The clauses of ms written for the pair, under the alias or the canonical name.
WrittenOn(table, ms, pair) ==
    {n \in 1..Len(ms) : Canonical(table, ms[n].field) = pair[1] /\ ClauseKind(ms[n]) = pair[2]}

\* C15: for a query without wildcard values and each alias table, the filter
\* returned has the pairs of the base filter and, for each clause, the pair of
\* the canonical name of its field, one look-up in the table, with its
\* operator: no clause is stored under the name it is written with when that
\* is an alias, and none under the canonical name of its canonical name; a
\* pair holds the value of the last clause written for it, under the alias or
\* under the canonical name.  The call of this state stored nothing under prio.
C15_AliasIsStoredUnderCanonicalName ==
    (Called /\ \A n \in 1..Len(Matches) : ~HasWildcardValue(Matches[n])) =>
        /\ \A table \in AliasCases :
              LET o == parse_query(args, ret.before, TASK_FIELDS, table, SIZE_MULTIPLIERS)
              IN  o.err = "" =>
                    /\ FilterPairs(o.result) =
                          FilterPairs(ret.before) \cup
                            { <<Canonical(table, Matches[n].field), ClauseKind(Matches[n])>> :
                                n \in 1..Len(Matches) }
                    /\ \A pair \in FilterPairs(o.result) :
                          FilterValue(o.result, pair) =
                            IF WrittenOn(table, Matches, pair) # {}
                            THEN ShapeValue(pair[1], pair[2],
                                            ClauseValue(Matches[LastOf(WrittenOn(table, Matches, pair))]),
                                            SIZE_MULTIPLIERS)
                            ELSE FilterValue(ret.before, pair)
        /\ Returned =>
              /\ F_prio \notin DictKeys(ret.result)
              /\ \A n \in 1..Len(Matches) :
                    Matches[n].field = F_prio =>
                        <<F_priority, ClauseKind(Matches[n])>> \in FilterPairs(ret.result)

\* prio=x parsed on a base filter that holds priority == 7: the entry of
\* priority under eq is x, and there is no entry for prio.
C15_Witness ==
    /\ Returned
    /\ args = << <<"p","r","i","o","=","x">> >>
    /\ <<F_priority, "eq">> \in FilterPairs(ret.before)
    /\ FilterValue(ret.before, <<F_priority, "eq">>) = StrV(<<"7">>)
    /\ FilterValue(ret.result, <<F_priority, "eq">>) = V_x
    /\ F_prio \notin DictKeys(ret.result)

(***************************************************************************)
(* C16                                                                     *)
(***************************************************************************)
\* The chunks of a statement between ORDER BY and LIMIT.
OrderByOf(s) ==
    LET i == CHOOSE n \in 1..Len(s) : s[n] = " ORDER BY "
    IN  SubSeq(s, i + 1, Len(s) - 1)

\* The order directive of a query dict: a list of (field, direction) pairs.
HasOrderDirective(q) == DictHas(q, K_order) /\ DOMAIN DictGet(q, K_order) = {"order"}
OrderDirective(q) == DictGet(q, K_order).order

\* The limit directive of a query dict: an integer.
HasLimitDirective(q) == DictHas(q, K_limit) /\ DOMAIN DictGet(q, K_limit) = {"int"}

\* A direction in capitals.
DirectionWord(d) ==
    CASE d = T_asc -> <<"A","S","C">>
      [] d = T_desc -> <<"D","E","S","C">>

\* field DIRECTION of each pair, in the sequence given, with commas between.
RECURSIVE SortKeys(_)
SortKeys(pairs) ==
    IF pairs = <<>> THEN <<>>
    ELSE pairs[1][1] \o <<" ">> \o DirectionWord(pairs[1][2])
            \o (IF Len(pairs) = 1 THEN <<>> ELSE <<", ">> \o SortKeys(Tail(pairs)))

OperatorKinds == {"eq", "neq", "gt", "gte", "lt", "lte", "in", "notin"}

\* The query dict holds a condition that cannot be expressed: on tags an
\* operator other than In, or on any field an operator key that is no kind.
Inexpressible(q) ==
    \E n \in 1..Len(q) :
        /\ IsDict(q[n].v)
        /\ q[n].k \notin {K_order, K_limit}
        /\ \E m \in 1..Len(q[n].v.dict) :
              \/ q[n].k = F_tags /\ q[n].v.dict[m].k # "in"
              \/ q[n].v.dict[m].k \notin OperatorKinds

\* C17: search_tasks raises for a filter with a condition that cannot be
\* expressed; it builds no statement for it.
C17_InexpressibleFilterIsRejected ==
    (pc \in {"searched", "search failed"} /\ Inexpressible(search_query))
        => pc = "search failed"

(***************************************************************************)
(* C18                                                                     *)
(***************************************************************************)
\* The texts that begin a predicate after the field name.
PredicateTexts ==
    {" = ?", " != ?", " > ?", " >= ?", " < ?", " <= ?", " IN (", " NOT IN ("}

\* The statement has a predicate on the field in its WHERE part.
HasPredicateOn(s, field) ==
    \E i \in 2..(Len(s) - Len(field)) :
        /\ s[i - 1] \in {"SELECT * FROM tasks WHERE ", " AND "}
        /\ SubSeq(s, i, i + Len(field) - 1) = field
        /\ s[i + Len(field)] \in PredicateTexts

\* The parsed filter constrains a field named as a directive is.
ConstrainsDirectiveName(f) == DictKeys(f) \cap {K_order, K_limit} # {}

\* C18: for every filter passed from parse_query to search_tasks, the limit
\* bound is an integer, the order used is the default or a list of (field,
\* direction) pairs, and a constraint the filter holds on a field named order
\* or limit is a predicate of the statement as that of any other field is.
C18_DirectivesApartFromConstraints ==
    pc = "searched" =>
        /\ DOMAIN params[Len(params)] = {"int"}
        /\ ~HasOrder(search_query) \/ HasOrderDirective(search_query)
        /\ \A field \in DictKeys(ret.result) \cap {K_order, K_limit} :
              HasPredicateOn(sql, field)

(***************************************************************************)
(* C19                                                                     *)
(***************************************************************************)
\* The constraints of a query dict: (field, operator kind, value) for every
\* condition of every field.
Constraints(q) ==
    UNION { { <<q[n].k, q[n].v.dict[m].k, q[n].v.dict[m].v>> : m \in 1..Len(q[n].v.dict) } :
            n \in {k \in 1..Len(q) : q[k].k \notin {K_order, K_limit} /\ IsDict(q[k].v)} }

\* The value a constraint names for a field: digits name a number for a
\* numeric field, None names the absence of a value.
Named(field, v) ==
    IF IsStr(v) /\ field \in NumericColumns /\ IsDigitText(v.str)
    THEN NumV(DigitsValue(v.str))
    ELSE v

\* A filter of scalar comparison constraints on fields of a task: each value
\* is a text or None, and an order comparison names what the field holds (a
\* number for a numeric field, a text otherwise).
ScalarFilter(q) ==
    \A c \in Constraints(q) :
        /\ c[1] \in TASK_FIELDS
        /\ c[2] \in {"eq", "neq", "gt", "gte", "lt", "lte"}
        /\ DOMAIN c[3] \in {{"str"}, {"none"}}
        /\ c[2] \notin {"eq", "neq"} =>
              /\ IsStr(c[3])
              /\ c[1] \in NumericColumns <=> DOMAIN Named(c[1], c[3]) = {"num"}

\* The task satisfies the constraint, read as a comparison of what the task
\* holds in the field with the value named; a task that holds nothing in the
\* field equals None, differs from every value and is neither above nor below
\* any.
Satisfies(task, c) ==
    LET held == task[c[1]]
        named == Named(c[1], c[3])
        below(u, v) == u # NoneV /\ v # NoneV /\ ValueLess(u, v)
    IN  CASE c[2] = "eq" -> held = named
          [] c[2] = "neq" -> held # named
          [] c[2] = "gt" -> below(named, held)
          [] c[2] = "gte" -> below(named, held) \/ (held # NoneV /\ held = named)
          [] c[2] = "lt" -> below(held, named)
          [] c[2] = "lte" -> below(held, named) \/ (held # NoneV /\ held = named)

\* The plan of a search: its sort keys (those of the order directive, else
\* priority and created, both descending) and its limit (else 100).
PlanKeys(q) ==
    IF HasOrderDirective(q) /\ OrderDirective(q) # <<>>
    THEN [n \in 1..Len(OrderDirective(q)) |->
            <<OrderDirective(q)[n][1], OrderDirective(q)[n][2] = T_desc>>]
    ELSE << <<F_priority, TRUE>>, <<F_created, TRUE>> >>
PlanLimit(q) == IF HasLimitDirective(q) THEN DictGet(q, K_limit).int ELSE DEFAULT_LIMIT

StoredTasks == {tasks[n] : n \in 1..Len(tasks)}
SatisfyingTasks ==
    {t \in StoredTasks : \A c \in Constraints(search_query) : Satisfies(t, c)}

\* C19: a search with a filter of scalar comparison constraints returns exactly
\* the first limit tasks, in the plan's order, among the stored tasks that
\* satisfy every constraint: each returned task is a stored task satisfying
\* all of them, none is returned twice, as many are returned as satisfy them
\* (up to limit), they come in the plan's order, and no task left out sorts
\* before a returned one.
C19_SearchReturnsFirstSatisfyingTasks ==
    (pc = "searched" /\ found.err = "" /\ ScalarFilter(search_query)) =>
        LET got == found.rows
            keys == PlanKeys(search_query)
            limit == PlanLimit(search_query)
            size == Cardinality(SatisfyingTasks)
        IN  /\ \A n \in 1..Len(got) : \E t \in SatisfyingTasks : got[n] = row_to_dict(t)
            /\ \A i, j \in 1..Len(got) : i < j => got[i] # got[j]
            /\ Len(got) = IF size <= limit THEN size ELSE limit
            /\ \A i, j \in 1..Len(got) : i < j => ~SortsBefore(keys, got[j], got[i])
            /\ \A t \in SatisfyingTasks :
                  (\A n \in 1..Len(got) : got[n] # row_to_dict(t))
                      => \A n \in 1..Len(got) : ~SortsBefore(keys, t, got[n])

(***************************************************************************)
(* C20                                                                     *)
(***************************************************************************)
\* The stored tasks whose assigned_to was never set.
UnassignedTasks == {t \in StoredTasks : t[F_assigned_to] = NoneV}

\* C20: a search with the clause  assigned_to == none  or  assigned_to == None
\* returns exactly the stored tasks that have no assignee (when the limit
\* leaves room for all of them).
C20_NoneSelectsUnassignedTasks ==
    ( /\ pc = "searched"
      /\ found.err = ""
      /\ args \in { << Q_assigned_none >>, << Q_assigned_None >> }
      /\ Cardinality(UnassignedTasks) <= PlanLimit(search_query) ) =>
        {found.rows[n] : n \in 1..Len(found.rows)}
            = {row_to_dict(t) : t \in UnassignedTasks}

(***************************************************************************)
(* C28                                                                     *)
(***************************************************************************)
\* The pairs of the returned filter that a clause of the query wrote.
WrittenPairs ==
    {pair \in FilterPairs(ret.result) : StoringClauses(Matches, pair) # {}}

\* A value of the filter is blank: an empty text, an empty list, or a list
\* with an empty text in it.
IsBlankValue(v) ==
    \/ IsStr(v) /\ v.str = <<>>
    \/ IsList(v) /\ (v.list = <<>> \/ \E n \in 1..Len(v.list) : v.list[n] = <<>>)

\* C28: no blank value survives parsing: a clause whose value is empty after
\* the brackets, quotes and commas around it are trimmed makes parse_query
\* fail, and in a returned filter every In/NotIn value the query added is a
\* non-empty list of non-empty texts and every text value it added is
\* non-empty.
C28_NoBlankValueSurvives ==
    Called =>
        /\ (\E n \in 1..Len(Matches) : ClauseValue(Matches[n]) = <<>>) => ~Returned
        /\ Returned =>
              \A pair \in WrittenPairs :
                  /\ ~IsBlankValue(FilterValue(ret.result, pair))
                  /\ pair[2] \in {"in", "notin"} => IsList(FilterValue(ret.result, pair))

(***************************************************************************)
(* C25                                                                     *)
(***************************************************************************)
\* A value written back as the text of a clause: a text as it is, quoted when
\* it holds a space; a list in brackets, its elements between commas; a
\* number, a bool and None as Python's str() writes them.
ValueText(v) ==
    CASE IsStr(v) ->
            IF \E n \in 1..Len(v.str) : v.str[n] = SP
            THEN <<"\"">> \o v.str \o <<"\"">>
            ELSE v.str
      [] IsList(v) -> <<"[">> \o Join(v.list, <<",">>) \o <<"]">>
      [] DOMAIN v = {"num"} -> Decimal(v.num) \o <<".", "0">>
      [] DOMAIN v = {"bool"} ->
            IF v.bool THEN <<"T","r","u","e">> ELSE <<"F","a","l","s","e">>
      [] DOMAIN v = {"none"} -> <<"N","o","n","e">>

\* The clauses of one field, and the filter as a query: field operator value
\* for every entry, the clauses a space apart.
FieldText(field, conditions) ==
    Join([n \in 1..Len(conditions) |->
            field \o <<SP>> \o KindChars(conditions[n].k) \o <<SP>>
                \o ValueText(conditions[n].v)], <<SP>>)
Serialized(f) == Join([n \in 1..Len(f) |-> FieldText(f[n].k, f[n].v)], <<SP>>)

\* The filter parsed again from its own text, in the same field context.
Reparsed(f) == parse_query(<<Serialized(f)>>, <<>>, TASK_FIELDS, TASK_ALIASES, SIZE_MULTIPLIERS)

\* C25: a filter parse_query returned for a query (on no base filter), written
\* back as clauses and parsed again in the same field context, gives an equal
\* filter.
C25_ReparsingTheSerializedFilterGivesIt ==
    (Returned /\ ret.before = <<>>) =>
        /\ Reparsed(ret.result).err = ""
        /\ FilterMap(Reparsed(ret.result).result) = FilterMap(ret.result)

(***************************************************************************)
(* C21                                                                     *)
(***************************************************************************)
\* The command search tasks --order has handed its query to the backend.
Commanded == pc \in {"searched", "search failed"} /\ order # <<>>

\* A sort key as the option's help writes it: field, or field- .
IsSortKeyText(e) ==
    LET field == IF EndsWith(e, "-") THEN SubSeq(e, 1, Len(e) - 1) ELSE e
    IN  field # <<>> /\ \A n \in 1..Len(field) : field[n] \in WordChars

\* The (field, direction) key a sort key text stands for.
SortKeyOf(e) ==
    IF EndsWith(e, "-") THEN << SubSeq(e, 1, Len(e) - 1), T_desc >> ELSE << e, T_asc >>

\* The keys a comma-separated list stands for, in the order written.
SortKeysOf(text) ==
    LET elements == SplitComma(text)
    IN  [n \in 1..Len(elements) |-> SortKeyOf(elements[n])]

\* C21: search tasks --order with a comma-separated list of sort keys, each
\* written field or field-, sends the backend a query whose order has one
\* (field, direction) key per element of the list, in the order written.
C21_OrderOptionGivesOneKeyPerElement ==
    (Commanded /\ \A n \in 1..Len(SplitComma(order)) : IsSortKeyText(SplitComma(order)[n])) =>
        /\ HasOrderDirective(search_query)
        /\ OrderDirective(search_query) = SortKeysOf(order)

\* The same for an option of one sort key only.
C21_OneSortKey ==
    (Commanded /\ Len(SplitComma(order)) = 1 /\ IsSortKeyText(order)) =>
        /\ HasOrderDirective(search_query)
        /\ OrderDirective(search_query) = SortKeysOf(order)

(***************************************************************************)
(* C22                                                                     *)
(***************************************************************************)
\* The ids of the stored tasks.
StoredIds(table) == {table[n][F_id].num : n \in 1..Len(table)}

\* The stored tasks but the one at position n.
OtherRows(table, n) == {table[j] : j \in (1..Len(table)) \ {n}}

\* This step is a call update_task(id, updates) on a stored task, with
\* updates that name columns only, put no None where the table wants a
\* value, and give no id that another task has.
UpdatesStoredTask ==
    /\ call'.name = "update_task"
    /\ \E e \in 0..1 : UpdateTask(call'.id, call'.updates, e)
    /\ call'.id \in StoredIds(tasks)
    /\ \A k \in 1..Len(call'.updates) :
          /\ call'.updates[k].k \in Columns
          /\ call'.updates[k].k \in NotNullColumns => call'.updates[k].v # NoneV
          /\ call'.updates[k].k = F_id =>
                call'.updates[k].v.num \notin StoredIds(tasks) \ {call'.id}

\* The step changed the named fields and updated of the task at position n,
\* nothing else, and returned the task as it is stored now.
UpdatedAsNamed(n) ==
    LET named == DictKeys(call'.updates) \cup {F_updated}
    IN  /\ Len(tasks') = Len(tasks)
        /\ \E m \in 1..Len(tasks') :
              /\ \A c \in Columns \ named : tasks'[m][c] = tasks[n][c]
              /\ tasks'[m][F_updated] = NumV(now')
              /\ OtherRows(tasks', m) = OtherRows(tasks, n)
              /\ call'.err = ""
              /\ call'.out = <<row_to_dict(tasks'[m])>>

\* C22: update_task(id, updates) on a stored task changes the fields named
\* in updates and the updated timestamp of that task and nothing else (the
\* other fields of the task and all other tasks keep their values), and
\* returns the task as it is stored after the update.
C22_UpdateChangesNamedFieldsOnly ==
    [][UpdatesStoredTask =>
          \E n \in 1..Len(tasks) : tasks[n][F_id] = NumV(call'.id) /\ UpdatedAsNamed(n)]_vars

\* The same for updates that do not name the id.
C22_UpdateOfOtherFieldsThanId ==
    [][(UpdatesStoredTask /\ ~DictHas(call'.updates, F_id)) =>
          \E n \in 1..Len(tasks) : tasks[n][F_id] = NumV(call'.id) /\ UpdatedAsNamed(n)]_vars

(***************************************************************************)
(* C26                                                                     *)
(***************************************************************************)
\* C26: update_task and delete_task with an id that is not stored raise
\* CloudTaskException and leave the stored tasks as they are, and get_task
\* with such an id returns None without raising, after any calls of
\* create_task, update_task and delete_task.
C26_UnstoredIdRaisesAndChangesNothing ==
    [][(call'.name \in {"update_task", "delete_task", "get_task"}
            /\ call'.id \notin StoredIds(tasks)) =>
          /\ tasks' = tasks
          /\ call'.out = <<>>
          /\ call'.err = IF call'.name = "get_task" THEN "" ELSE "CloudTaskException"]_vars

\* delete_task has raised on the id of a task that was deleted before, with
\* another task in the store.
C26_DeletedTwice ==
    /\ call.name = "delete_task" /\ call.err = "CloudTaskException"
    /\ call.id \in deleted /\ call.id \notin StoredIds(tasks)
    /\ tasks # <<>>

(***************************************************************************)
(* C27                                                                     *)
(***************************************************************************)
\* C27: every create_task returns an id that no create_task returned before;
\* once delete_task(id) has succeeded, get_task(id) returns None after every
\* later call; a delete removes its task and leaves the others as they are.
C27_IdsAreNeverReused ==
    [][/\ seq' # seq => call'.out[1][F_id].num \notin issued
       /\ \A id \in deleted' : get_task(tasks', id).out = <<>>
       /\ Len(tasks') < Len(tasks) =>
             \E n \in 1..Len(tasks) :
                 /\ tasks[n][F_id] = NumV(call'.id)
                 /\ OtherRows(tasks, n) = {tasks'[j] : j \in 1..Len(tasks')}]_vars

(***************************************************************************)
(* C24                                                                     *)
(***************************************************************************)
\* C24: whatever set, get, clear and passage of time came before, get()
\* returns the data of the most recent set() when that set is less than the
\* duration old and no clear() followed it; it returns None when there is no
\* file, when the age of the last set has reached the duration, and after a
\* clear() until the next set().
C24_GetReturnsTheFreshSetData ==
    cache_got.fresh =>
        /\ (cache_put.state = "set" /\ clock - cache_put.at < Duration) =>
               cache_got.value = <<cache_put.data>>
        /\ (\/ ~file.exists
            \/ cache_put.state = "set" /\ clock - cache_put.at >= Duration
            \/ cache_put.state = "cleared") =>
               cache_got.value = <<>>

\* get() has returned None for data set exactly the duration ago.
C24_ExpiredAtDuration ==
    /\ cache_got.fresh /\ cache_got.value = <<>>
    /\ cache_put.state = "set" /\ cache_put.data # <<>>
    /\ clock - cache_put.at = Duration

\* get() has returned the data of a set that followed a clear and another set.
C24_GotData ==
    /\ cache_got.fresh /\ cache_got.value = <<cache_put.data>>
    /\ Len(cache_put.data) = 3 /\ cache_put.at > 0

(***************************************************************************)
(* C23                                                                     *)
(***************************************************************************)
\* func's results for the items one of whose calls returned, in item order.
RECURSIVE ResultsOfSucceeded(_)
ResultsOfSucceeded(js) ==
    IF js = <<>> THEN <<>>
    ELSE (IF Head(js).succeeded THEN <<Head(js).result>> ELSE <<>>)
             \o ResultsOfSucceeded(Tail(js))

\* Item i was called until its first call that returned, or until max_retries
\* calls had raised.
CalledUntilDone(i) ==
    IF jobs[i].succeeded
    THEN jobs[i].calls = jobs[i].raised + 1 /\ jobs[i].raised < max_retries
    ELSE jobs[i].calls = jobs[i].raised /\ jobs[i].raised = max_retries

\* C23: execute_concurrent calls func on each item until the first call that
\* returns or until max_retries calls have raised, whatever the other items
\* and the threads do, and returns func's results of exactly the items that
\* had a call that returned; an item whose calls all raised is left out.
C23_ResultsOfExactlyTheSucceededItems ==
    /\ \A i \in 1..Len(jobs) :
          /\ jobs[i].calls <= jobs[i].raised + 1
          /\ jobs[i].raised <= max_retries
          /\ jobs[i].state = "done" => CalledUntilDone(i)
    /\ returned.done => returned.list = ResultsOfSucceeded(jobs)

\* The same when no call of func returns None.
C23_WhenNoResultIsNone ==
    (\A i \in 1..Len(jobs) : jobs[i].succeeded => jobs[i].result # NoneV) =>
        /\ \A i \in 1..Len(jobs) :
              /\ jobs[i].calls <= jobs[i].raised + 1
              /\ jobs[i].raised <= max_retries
              /\ jobs[i].state = "done" => CalledUntilDone(i)
        /\ returned.done => returned.list = ResultsOfSucceeded(jobs)

====
